---- MODULE Spec2Model ----
(***************************************************************************)
(* Verification model of the CaRMS data pipeline (haydenchiu/CaRMS-demo).  *)
(*                                                                         *)
(* Part I   the asset graph declared under src/dagster_project (assets,    *)
(*          their inputs, groups, jobs, asset checks) and the engine that  *)
(*          orders and runs it.                                            *)
(* Part II  the warehouse loaders of assets/serving.py acting on the six   *)
(*          warehouse tables.                                              *)
(***************************************************************************)
EXTENDS Integers, Sequences, FiniteSets, TLC

(***************************************************************************)
(* Bounds of the model.                                                    *)
(***************************************************************************)
MaxRuns == 1        \* run invocations per behaviour
MaxFaults == 2      \* failing materializations / failing checks per behaviour
MaxAssets == 3      \* assets registered in a freely constructed graph
MaxLoads == 2       \* loader executions per behaviour of free loads
MaxBatch == 2       \* rows of one staged batch

Range(s) == {s[i] : i \in 1..Len(s)}

(***************************************************************************)
(* Part I.a  The declared asset graph.                                     *)
(***************************************************************************)
raw_data_assets ==
    << "raw_program_descriptions_json", "raw_program_descriptions_csv",
       "raw_program_master", "raw_discipline" >>

staging_assets ==
    << "staging_programs", "staging_universities", "staging_specialties",
       "staging_program_descriptions", "staging_requirements",
       "staging_selection_criteria", "staging_training_sites" >>

serving_assets ==
    << "dim_universities", "dim_specialties", "fact_programs",
       "dim_requirements", "dim_selection_criteria", "dim_training_sites" >>

analytics_assets ==
    << "analytics_program_summary", "analytics_requirements_by_specialty",
       "analytics_selection_criteria_trends",
       "analytics_geographic_distribution",
       "analytics_specialty_competitiveness" >>

all_assets ==
    raw_data_assets \o staging_assets \o serving_assets \o analytics_assets

\* Names used for freely constructed graphs (register / build).
GraphNames == {"n1", "n2", "n3"}

\* ins={...} of the @asset declarations of assets/staging.py.
StagingIns(a) ==
    CASE a = "staging_programs" -> {"raw_program_master"}
      [] a = "staging_universities" -> {"staging_programs"}
      [] a = "staging_specialties" -> {"raw_discipline"}
      [] a = "staging_program_descriptions" ->
             {"raw_program_descriptions_json", "staging_programs"}
      [] a = "staging_requirements" -> {"staging_program_descriptions"}
      [] a = "staging_selection_criteria" -> {"staging_program_descriptions"}
      [] OTHER -> {"staging_program_descriptions"}

\* fact_programs declared without its two dimension inputs.
ServingIns_NoDimensionInputs(a) ==
    CASE a = "dim_universities" -> {"staging_universities"}
      [] a = "dim_specialties" -> {"staging_specialties"}
      [] a = "fact_programs" ->
             {"staging_programs", "staging_program_descriptions"}
      [] a = "dim_requirements" -> {"staging_requirements", "fact_programs"}
      [] a = "dim_selection_criteria" ->
             {"staging_selection_criteria", "fact_programs"}
      [] OTHER -> {"staging_training_sites", "fact_programs"}

\* ins={...} of the @asset declarations of assets/serving.py.
ServingIns(a) ==
    CASE a = "dim_universities" -> {"staging_universities"}
      [] a = "dim_specialties" -> {"staging_specialties"}
      [] a = "fact_programs" ->
             {"staging_programs", "staging_program_descriptions",
              "dim_universities", "dim_specialties"}
      [] a = "dim_requirements" -> {"staging_requirements", "fact_programs"}
      [] a = "dim_selection_criteria" ->
             {"staging_selection_criteria", "fact_programs"}
      [] OTHER -> {"staging_training_sites", "fact_programs"}

\* analytics_requirements_by_specialty declared on fact_programs instead of
\* dim_requirements.
AnalyticsIns_RequirementsOnFact(a) ==
    CASE a = "analytics_program_summary" -> {"fact_programs"}
      [] a = "analytics_requirements_by_specialty" -> {"fact_programs"}
      [] a = "analytics_selection_criteria_trends" -> {"dim_selection_criteria"}
      [] a = "analytics_geographic_distribution" -> {"fact_programs"}
      [] OTHER -> {"analytics_program_summary"}

\* ins={...} of the @asset declarations of assets/analytics.py.
AnalyticsIns(a) ==
    CASE a = "analytics_program_summary" -> {"fact_programs"}
      [] a = "analytics_requirements_by_specialty" -> {"dim_requirements"}
      [] a = "analytics_selection_criteria_trends" -> {"dim_selection_criteria"}
      [] a = "analytics_geographic_distribution" -> {"fact_programs"}
      [] OTHER -> {"analytics_program_summary"}

\* Declared inputs of an asset of all_assets (raw data assets have none).
AssetIns(a) ==
    CASE a \in Range(staging_assets) -> StagingIns(a)
      [] a \in Range(serving_assets) -> ServingIns(a)
      [] a \in Range(analytics_assets) -> AnalyticsIns(a)
      [] OTHER -> {}

\* group_name=... of every @asset declaration.
GroupName(a) ==
    CASE a \in Range(raw_data_assets) -> "raw_data"
      [] a \in Range(staging_assets) -> "staging"
      [] a \in Range(serving_assets) -> "serving"
      [] a \in Range(analytics_assets) -> "analytics"
      [] a = "n1" -> "staging"
      [] a = "n2" -> "serving"
      [] OTHER -> "analytics"

all_jobs ==
    << "daily_etl_pipeline", "analytics_refresh", "warehouse_load",
       "staging_transform" >>

\* A selection that silently pulls in everything upstream of the group.
RECURSIVE UpstreamClosure(_, _)
UpstreamClosure(S, insOf) ==
    UNION {IF T = S THEN S ELSE UpstreamClosure(T, insOf) :
              T \in {S \cup UNION {insOf[a] : a \in S}}}

GroupOfJob(job) ==
    CASE job = "analytics_refresh" -> "analytics"
      [] job = "warehouse_load" -> "serving"
      [] job = "staging_transform" -> "staging"
      [] OTHER -> "*"

JobSelection_WithUpstream(job, names, insOf, grpOf) ==
    IF job = "daily_etl_pipeline"
    THEN names
    ELSE UpstreamClosure({a \in names : grpOf[a] = GroupOfJob(job)}, insOf)

\* selection=AssetSelection.all() / AssetSelection.groups(g) of each job.
JobSelection(job, names, insOf, grpOf) ==
    IF job = "daily_etl_pipeline"
    THEN names
    ELSE {a \in names : grpOf[a] = GroupOfJob(job)}

data_quality_checks ==
    << "check_staging_programs_completeness",
       "check_staging_programs_duplicates",
       "check_staging_programs_validity",
       "check_universities_loaded",
       "check_specialties_loaded",
       "check_programs_referential_integrity",
       "check_programs_business_rules" >>

\* asset=... of every @asset_check declaration.
CheckAsset(c) ==
    CASE c = "check_staging_programs_completeness" -> "staging_programs"
      [] c = "check_staging_programs_duplicates" -> "staging_programs"
      [] c = "check_staging_programs_validity" -> "staging_programs"
      [] c = "check_universities_loaded" -> "dim_universities"
      [] c = "check_specialties_loaded" -> "dim_specialties"
      [] c = "check_programs_referential_integrity" -> "fact_programs"
      [] OTHER -> "fact_programs"

(***************************************************************************)
(* Part I.b  State of the asset graph engine.                              *)
(***************************************************************************)
VARIABLES
    registered,   \* asset names in registration order
    ins,          \* declared inputs of every registered asset
    grp,          \* group tag of every registered asset
    regError,     \* "none" or "DuplicateAssetError"
    buildStatus,  \* "unbuilt", "ok" or "CycleError"
    cycleNode,    \* node named by the cycle error
    order,        \* cached execution order
    runState,     \* "idle", "running" or "done"
    runNo,        \* number of run invocations started
    selection,    \* assets of the current run
    status,       \* per-asset status in the current run
    execCount,    \* materializations of each asset in the current run
    output,       \* stored result of each asset: the run that produced it, 0 = none
    received,     \* <<asset, input, version>> handed to an asset when it started
    checkResult,  \* per-check "none", "passed" or "failed"
    checkInput,   \* <<asset status, output version>> seen by each check
    exitCode,     \* -1 while no run has ended, else 0 or 1
    faults,       \* failures injected so far
    runJob,       \* job of the current run
    regAttempts,  \* number of register calls made
    lastReg       \* name passed to the last register call

engineVars ==
    << registered, ins, grp, regError, buildStatus, cycleNode, order, runState,
       runNo, selection, status, execCount, output, received, checkResult,
       checkInput, exitCode, faults, runJob, regAttempts, lastReg >>

Names == DOMAIN status
Registered == Range(registered)
Checks == Range(data_quality_checks)

Min(S) == CHOOSE x \in S : \A y \in S : x <= y

RemoveAt(s, i) == SubSeq(s, 1, i - 1) \o SubSeq(s, i + 1, Len(s))

\* A sort that reports the cycle but hands back the part ordered so far.
RECURSIVE TopoSort_PartialOrder(_, _, _)
TopoSort_PartialOrder(remaining, done, insOf) ==
    IF remaining = << >>
    THEN [status |-> "ok", order |-> done, node |-> "none"]
    ELSE LET ready == {i \in 1..Len(remaining) :
                          insOf[remaining[i]] \subseteq Range(done)}
         IN  IF ready = {}
             THEN [status |-> "CycleError", order |-> done,
                   node |-> remaining[1]]
             ELSE TopoSort_PartialOrder(RemoveAt(remaining, Min(ready)),
                                        Append(done, remaining[Min(ready)]),
                                        insOf)

\* build(): Kahn's algorithm, ties broken by registration order.
RECURSIVE TopoSort(_, _, _)
TopoSort(remaining, done, insOf) ==
    IF remaining = << >>
    THEN [status |-> "ok", order |-> done, node |-> "none"]
    ELSE LET ready == {i \in 1..Len(remaining) :
                          insOf[remaining[i]] \subseteq Range(done)}
         IN  IF ready = {}
             THEN [status |-> "CycleError", order |-> << >>,
                   node |-> remaining[1]]
             ELSE TopoSort(RemoveAt(remaining, Min(ready)),
                           Append(done, remaining[Min(ready)]), insOf)

\* Assets downstream of S (S included).
RECURSIVE Downstream(_, _, _)
Downstream(S, names, insOf) ==
    UNION {IF T = S THEN S ELSE Downstream(T, names, insOf) :
              T \in {S \cup {x \in names : insOf[x] \cap S # {}}}}

TransitiveDependents(a) == Downstream({a}, Registered, ins) \ {a}

\* Assets upstream of a (a excluded).
TransitiveInputs(a) == UpstreamClosure(ins[a], ins)

HasCycle == \E a \in Registered : a \in TransitiveInputs(a)

ClosedGraph == \A a \in Registered : ins[a] \subseteq Registered

PendingChecks ==
    {c \in Checks : /\ CheckAsset(c) \in Names
                    /\ status[CheckAsset(c)] = "succeeded"
                    /\ checkResult[c] = "none"}

PendingPositions == {i \in 1..Len(order) : status[order[i]] = "pending"}

Terminal == {"succeeded", "failed", "skipped"}

(***************************************************************************)
(* Part I.c  Operations of the engine.                                     *)
(***************************************************************************)
\* A register that lets a second declaration of a name replace the first.
Register_Overwrite(name, deps) ==
    /\ regError = "none"
    /\ runNo = 0
    /\ Len(registered) < MaxAssets
    /\ registered' = IF name \in Registered THEN registered
                     ELSE Append(registered, name)
    /\ ins' = [ins EXCEPT ![name] = deps]
    /\ grp' = [grp EXCEPT ![name] = GroupName(name)]
    /\ buildStatus' = "unbuilt"
    /\ cycleNode' = "none"
    /\ order' = << >>
    /\ regAttempts' = regAttempts + 1
    /\ lastReg' = name
    /\ UNCHANGED << regError, runState, runNo, selection, status, execCount,
                    output, received, checkResult, checkInput, exitCode, faults,
                    runJob >>

\* register(asset)
Register(name, deps) ==
    /\ regError = "none"
    /\ runNo = 0
    /\ Len(registered) < MaxAssets
    /\ IF name \in Registered
       THEN /\ regError' = "DuplicateAssetError"
            /\ UNCHANGED << registered, ins, grp, buildStatus, cycleNode,
                            order >>
       ELSE /\ registered' = Append(registered, name)
            /\ ins' = [ins EXCEPT ![name] = deps]
            /\ grp' = [grp EXCEPT ![name] = GroupName(name)]
            /\ buildStatus' = "unbuilt"
            /\ cycleNode' = "none"
            /\ order' = << >>
            /\ UNCHANGED regError
    /\ regAttempts' = regAttempts + 1
    /\ lastReg' = name
    /\ UNCHANGED << runState, runNo, selection, status, execCount, output,
                    received, checkResult, checkInput, exitCode, faults,
                    runJob >>

\* build()
Build ==
    /\ regError = "none"
    /\ buildStatus = "unbuilt"
    /\ ClosedGraph
    /\ LET r == TopoSort(registered, << >>, ins)
       IN  /\ buildStatus' = r.status
           /\ order' = r.order
           /\ cycleNode' = r.node
    /\ UNCHANGED << registered, ins, grp, regError, runState, runNo, selection,
                    status, execCount, output, received, checkResult,
                    checkInput, exitCode, faults, runJob, regAttempts,
                    lastReg >>

\* run(selection): a job is launched.
StartRun(job) ==
    /\ regError = "none"
    /\ buildStatus = "ok"
    /\ runState \in {"idle", "done"}
    /\ runNo < MaxRuns
    /\ LET sel == JobSelection(job, Registered, ins, grp)
       IN  /\ selection' = sel
           /\ status' = [a \in Names |-> IF a \in sel THEN "pending" ELSE "none"]
    /\ runState' = "running"
    /\ runNo' = runNo + 1
    /\ execCount' = [a \in Names |-> 0]
    /\ received' = {}
    /\ checkResult' = [c \in Checks |-> "none"]
    /\ checkInput' = [c \in Checks |-> << "none", 0 >>]
    /\ runJob' = job
    /\ UNCHANGED << registered, ins, grp, regError, buildStatus, cycleNode,
                    order, output, exitCode, faults, regAttempts, lastReg >>

\* A start that recomputes the asset's inputs instead of reusing their result.
StartAsset_Recompute ==
    /\ runState = "running"
    /\ \A a \in Names : status[a] # "running"
    /\ PendingChecks = {}
    /\ PendingPositions # {}
    /\ LET a == order[Min(PendingPositions)]
       IN  /\ status' = [status EXCEPT ![a] = "running"]
           /\ execCount' = [x \in Names |->
                              IF x = a \/ x \in ins[a] \cap selection
                              THEN execCount[x] + 1 ELSE execCount[x]]
           /\ received' = received \cup {<< a, d, output[d] >> : d \in ins[a]}
    /\ UNCHANGED << registered, ins, grp, regError, buildStatus, cycleNode,
                    order, runState, runNo, selection, output, checkResult,
                    checkInput, exitCode, faults, runJob, regAttempts,
                    lastReg >>

\* The next asset of the execution order starts materializing.
StartAsset ==
    /\ runState = "running"
    /\ \A a \in Names : status[a] # "running"
    /\ PendingChecks = {}
    /\ PendingPositions # {}
    /\ LET a == order[Min(PendingPositions)]
       IN  /\ status' = [status EXCEPT ![a] = "running"]
           /\ execCount' = [execCount EXCEPT ![a] = @ + 1]
           /\ received' = received \cup {<< a, d, output[d] >> : d \in ins[a]}
    /\ UNCHANGED << registered, ins, grp, regError, buildStatus, cycleNode,
                    order, runState, runNo, selection, output, checkResult,
                    checkInput, exitCode, faults, runJob, regAttempts,
                    lastReg >>

\* A finish that abandons every remaining asset on the first error.
FinishAsset_AbortOnError(a, ok) ==
    /\ runState = "running"
    /\ status[a] = "running"
    /\ IF ok
       THEN /\ status' = [status EXCEPT ![a] = "succeeded"]
            /\ output' = [output EXCEPT ![a] = runNo]
            /\ UNCHANGED faults
       ELSE /\ faults < MaxFaults
            /\ status' = [x \in Names |->
                            IF x = a THEN "failed"
                            ELSE IF status[x] = "pending" THEN "skipped"
                                 ELSE status[x]]
            /\ faults' = faults + 1
            /\ UNCHANGED output
    /\ UNCHANGED << registered, ins, grp, regError, buildStatus, cycleNode,
                    order, runState, runNo, selection, execCount, received,
                    checkResult, checkInput, exitCode, runJob, regAttempts,
                    lastReg >>

\* The running asset's materialization returns or throws.
FinishAsset(a, ok) ==
    /\ runState = "running"
    /\ status[a] = "running"
    /\ IF ok
       THEN /\ status' = [status EXCEPT ![a] = "succeeded"]
            /\ output' = [output EXCEPT ![a] = runNo]
            /\ UNCHANGED faults
       ELSE /\ faults < MaxFaults
            /\ LET skip == {x \in TransitiveDependents(a) :
                                status[x] = "pending"}
               IN  status' = [x \in Names |->
                                IF x = a THEN "failed"
                                ELSE IF x \in skip THEN "skipped"
                                     ELSE status[x]]
            /\ faults' = faults + 1
            /\ UNCHANGED output
    /\ UNCHANGED << registered, ins, grp, regError, buildStatus, cycleNode,
                    order, runState, runNo, selection, execCount, received,
                    checkResult, checkInput, exitCode, runJob, regAttempts,
                    lastReg >>

\* A check whose failure fails its asset and skips the assets downstream.
RunCheck_Blocking(passed) ==
    /\ runState = "running"
    /\ PendingChecks # {}
    /\ passed \/ faults < MaxFaults
    /\ LET i == Min({j \in 1..Len(data_quality_checks) :
                        data_quality_checks[j] \in PendingChecks})
           c == data_quality_checks[i]
       IN  /\ checkResult' =
                 [checkResult EXCEPT ![c] = IF passed THEN "passed" ELSE "failed"]
           /\ checkInput' =
                 [checkInput EXCEPT
                     ![c] = << status[CheckAsset(c)], output[CheckAsset(c)] >>]
           /\ status' = [x \in Names |->
                           IF passed THEN status[x]
                           ELSE IF x = CheckAsset(c) THEN "failed"
                           ELSE IF x \in TransitiveDependents(CheckAsset(c))
                                   /\ status[x] = "pending"
                                THEN "skipped"
                                ELSE status[x]]
    /\ faults' = IF passed THEN faults ELSE faults + 1
    /\ UNCHANGED << registered, ins, grp, regError, buildStatus, cycleNode,
                    order, runState, runNo, selection, execCount,
                    output, received, exitCode, runJob, regAttempts,
                    lastReg >>

\* An attached quality check runs on the output just produced.
RunCheck(passed) ==
    /\ runState = "running"
    /\ PendingChecks # {}
    /\ passed \/ faults < MaxFaults
    /\ LET i == Min({j \in 1..Len(data_quality_checks) :
                        data_quality_checks[j] \in PendingChecks})
           c == data_quality_checks[i]
       IN  /\ checkResult' =
                 [checkResult EXCEPT ![c] = IF passed THEN "passed" ELSE "failed"]
           /\ checkInput' =
                 [checkInput EXCEPT
                     ![c] = << status[CheckAsset(c)], output[CheckAsset(c)] >>]
    /\ faults' = IF passed THEN faults ELSE faults + 1
    /\ UNCHANGED << registered, ins, grp, regError, buildStatus, cycleNode,
                    order, runState, runNo, selection, status, execCount,
                    output, received, exitCode, runJob, regAttempts,
                    lastReg >>

\* The run reports its per-asset summary and exit code.
EndRun ==
    /\ runState = "running"
    /\ \A a \in Names : status[a] \notin {"pending", "running"}
    /\ PendingChecks = {}
    /\ runState' = "done"
    /\ exitCode' = IF \E a \in Names : status[a] = "failed" THEN 1 ELSE 0
    /\ UNCHANGED << registered, ins, grp, regError, buildStatus, cycleNode,
                    order, runNo, selection, status, execCount, output,
                    received, checkResult, checkInput, faults, runJob,
                    regAttempts, lastReg >>

(***************************************************************************)
(* Part II.a  The warehouse: six tables and the staged batches the loaders *)
(* of assets/serving.py consume.  A table is the sequence of its rows in   *)
(* insertion order; the primary key of a row is its position.  Text values *)
(* that the loaders inspect (program codes, CARMS ids, description bodies)  *)
(* are sequences of characters; all other text values are opaque strings.  *)
(***************************************************************************)

NULL == "NULL"

Batches(rows, n) == UNION {[1..k -> rows] : k \in 0..n}

\* -- staged rows -----------------------------------------------------------

UniversityNames == {"University of Toronto", "McGill University"}

UniversityValues ==
    {[code |-> "UOT", province |-> "Ontario", is_francophone |-> FALSE],
     [code |-> "MU", province |-> "Quebec", is_francophone |-> TRUE]}

StagedUniversities ==
    {[university_name |-> n, code |-> v.code, province |-> v.province,
      is_francophone |-> v.is_francophone] :
        n \in UniversityNames, v \in UniversityValues}

SpecialtyNames == {"Surgery", "Surgery - Cardiac"}

SpecialtyValues ==
    {[code |-> "SURG", category |-> "Surgical", is_primary_care |-> FALSE],
     [code |-> "SC", category |-> "Primary Care", is_primary_care |-> TRUE]}

IsSubspecialtyName(n) == n = "Surgery - Cardiac"

ParentSpecialtyName(n) == IF IsSubspecialtyName(n) THEN "Surgery" ELSE NULL

StagedSpecialties ==
    {[specialty_name |-> n, code |-> v.code, category |-> v.category,
      is_primary_care |-> v.is_primary_care,
      is_subspecialty |-> IsSubspecialtyName(n),
      parent_specialty_name |-> ParentSpecialtyName(n)] :
        n \in SpecialtyNames, v \in SpecialtyValues}

ProgramCodes ==
    {<< "2", "7", "4" >>, << "2", "7", "4", "4", "7" >>, << "R", "1", "5" >>}

CarmsYear == 2025

StagedPrograms ==
    {[program_code |-> c, program_name |-> "Residency", university_name |-> u,
      specialty_name |-> "Surgery", is_valid |-> v, carms_year |-> CarmsYear,
      source_file |-> "1503_program_master.xlsx"] :
        c \in ProgramCodes, u \in UniversityNames, v \in BOOLEAN}

StagedDescriptions ==
    {[full_content |-> << "a", "b", "c" >>, program_overview |-> << "a" >>,
      curriculum |-> << "b", "c" >>]}

CarmsIds == {<< "2", "7", "4", "4", "7" >>, << "9" >>, << "r", "1", "5" >>}

StagedRequirements ==
    {[carms_id |-> c, requirement_type |-> "Eligibility",
      requirement_text |-> "must hold an MD", is_mandatory |-> TRUE] :
        c \in CarmsIds}

StagedSelectionCriteria ==
    {[carms_id |-> c, criterion_type |-> "Academic",
      description |-> "academic record"] : c \in CarmsIds}

StagedTrainingSites ==
    {[carms_id |-> c, site_name |-> "General Hospital",
      site_type |-> "Hospital"] : c \in CarmsIds}

\* -- warehouse state -------------------------------------------------------

VARIABLES
    universities,        \* dim_universities
    specialties,         \* dim_specialties
    programs,            \* fact_programs
    requirements,        \* dim_requirements
    selection_criteria,  \* dim_selection_criteria
    training_sites,      \* dim_training_sites
    loads,               \* number of loader executions so far
    lastLoad,            \* the latest loader execution: asset, batch, outcome
    staged,              \* the staging outputs a pipeline run consumes
    pipelineRun,         \* number of the pipeline run in progress, 0 if none
    pipelineStep,        \* position of the next loader in the pipeline run
    pipelineFailed,      \* loaders that failed in the pipeline run
    rowCounts,           \* per full run: row counts at its end, failed loaders
    sessions,            \* per concurrently executing loader: its session
    runStart,            \* the tables when the concurrent loaders started
    raw,                 \* the raw inputs the staging assets read
    sections             \* `sections` of the document parsed last

tableVars == << universities, specialties, programs, requirements,
                selection_criteria, training_sites >>

concurrentVars == << sessions, runStart >>

stagingVars == << raw, sections >>

warehouseVars == << tableVars, loads, lastLoad, staged, pipelineRun,
                    pipelineStep, pipelineFailed, rowCounts, concurrentVars,
                    stagingVars >>

(***************************************************************************)
(* Part II.b  The loaders of assets/serving.py.  Each loader opens one     *)
(* session, works through its batch and commits; queries of the session    *)
(* see the rows the session has added so far (autoflush).                  *)
(***************************************************************************)

Max(S) == CHOOSE x \in S : \A y \in S : y <= x

\* `select(T).where(T.name == name)` followed by `.first()`: 0 when no row.
FirstByName(table, name) ==
    LET hits == {i \in 1..Len(table) : table[i].name = name}
    IN  IF hits = {} THEN 0 ELSE Min(hits)

University(id, row) ==
    [id |-> id, name |-> row.university_name, code |-> row.code,
     province |-> row.province, is_francophone |-> row.is_francophone,
     city |-> NULL, is_deleted |-> FALSE]

\* An update path that writes a fresh row over the stored one.
RECURSIVE UpsertUniversities_ReplaceRow(_, _, _)
UpsertUniversities_ReplaceRow(acc, batch, i) ==
    IF i > Len(batch) THEN acc
    ELSE LET row == batch[i]
             existing == FirstByName(acc.table, row.university_name)
         IN  UpsertUniversities_ReplaceRow(
                 IF existing # 0
                 THEN [acc EXCEPT
                         !.table[existing] =
                             University(acc.table[existing].id, row),
                         !.updated = @ + 1]
                 ELSE [acc EXCEPT
                         !.table = Append(@, University(Len(@) + 1, row)),
                         !.inserted = @ + 1],
                 batch, i + 1)

\* A loader that looks the university up by its short code.
RECURSIVE UpsertUniversities_LookupByCode(_, _, _)
UpsertUniversities_LookupByCode(acc, batch, i) ==
    IF i > Len(batch) THEN acc
    ELSE LET row == batch[i]
             hits == {k \in 1..Len(acc.table) : acc.table[k].code = row.code}
             existing == IF hits = {} THEN 0 ELSE Min(hits)
         IN  UpsertUniversities_LookupByCode(
                 IF existing # 0
                 THEN [acc EXCEPT
                         !.table[existing].code = row.code,
                         !.table[existing].province = row.province,
                         !.table[existing].is_francophone = row.is_francophone,
                         !.updated = @ + 1]
                 ELSE [acc EXCEPT
                         !.table = Append(@, University(Len(@) + 1, row)),
                         !.inserted = @ + 1],
                 batch, i + 1)

\* The loop of dim_universities over rows i.. of the batch.
RECURSIVE UpsertUniversities(_, _, _)
UpsertUniversities(acc, batch, i) ==
    IF i > Len(batch) THEN acc
    ELSE LET row == batch[i]
             existing == FirstByName(acc.table, row.university_name)
         IN  UpsertUniversities(
                 IF existing # 0
                 THEN [acc EXCEPT
                         !.table[existing].code = row.code,
                         !.table[existing].province = row.province,
                         !.table[existing].is_francophone = row.is_francophone,
                         !.updated = @ + 1]
                 ELSE [acc EXCEPT
                         !.table = Append(@, University(Len(@) + 1, row)),
                         !.inserted = @ + 1],
                 batch, i + 1)

Specialty(id, row) ==
    [id |-> id, name |-> row.specialty_name, code |-> row.code,
     category |-> row.category, is_primary_care |-> row.is_primary_care,
     parent_specialty_id |-> 0, is_deleted |-> FALSE]

\* A first pass that writes a fresh row over the stored one.
RECURSIVE UpsertSpecialties_ReplaceRow(_, _, _)
UpsertSpecialties_ReplaceRow(acc, batch, i) ==
    IF i > Len(batch) THEN acc
    ELSE LET row == batch[i]
             existing == FirstByName(acc.table, row.specialty_name)
             id == IF existing # 0 THEN acc.table[existing].id
                   ELSE Len(acc.table) + 1
             map == [n \in DOMAIN acc.map \cup {row.specialty_name} |->
                        IF n = row.specialty_name THEN id ELSE acc.map[n]]
         IN  UpsertSpecialties_ReplaceRow(
                 IF existing # 0
                 THEN [acc EXCEPT
                         !.table[existing] = Specialty(id, row),
                         !.map = map,
                         !.updated = @ + 1]
                 ELSE [acc EXCEPT
                         !.table = Append(@, Specialty(Len(@) + 1, row)),
                         !.map = map,
                         !.inserted = @ + 1],
                 batch, i + 1)

\* First pass of dim_specialties; acc.map is specialty_map (name -> id).
RECURSIVE UpsertSpecialties(_, _, _)
UpsertSpecialties(acc, batch, i) ==
    IF i > Len(batch) THEN acc
    ELSE LET row == batch[i]
             existing == FirstByName(acc.table, row.specialty_name)
             id == IF existing # 0 THEN acc.table[existing].id
                   ELSE Len(acc.table) + 1
             map == [n \in DOMAIN acc.map \cup {row.specialty_name} |->
                        IF n = row.specialty_name THEN id ELSE acc.map[n]]
         IN  UpsertSpecialties(
                 IF existing # 0
                 THEN [acc EXCEPT
                         !.table[existing].code = row.code,
                         !.table[existing].category = row.category,
                         !.table[existing].is_primary_care = row.is_primary_care,
                         !.map = map,
                         !.updated = @ + 1]
                 ELSE [acc EXCEPT
                         !.table = Append(@, Specialty(Len(@) + 1, row)),
                         !.map = map,
                         !.inserted = @ + 1],
                 batch, i + 1)

\* Second pass of dim_specialties over the subspecialty rows of the batch.
RECURSIVE LinkParentSpecialties(_, _, _, _)
LinkParentSpecialties(table, map, batch, i) ==
    IF i > Len(batch) THEN table
    ELSE LET row == batch[i]
             parent_name == row.parent_specialty_name
             specialty == FirstByName(table, row.specialty_name)
         IN  LinkParentSpecialties(
                 IF /\ row.is_subspecialty
                    /\ parent_name # NULL
                    /\ parent_name \in DOMAIN map
                    /\ specialty # 0
                 THEN [table EXCEPT
                         ![specialty].parent_specialty_id = map[parent_name]]
                 ELSE table,
                 map, batch, i + 1)

\* `lookup[row.name] = row.id` over all rows, then `lookup.get(name)`:
\* a later row overwrites an earlier one; 0 stands for None.
LookupId(table, name) ==
    LET hits == {i \in 1..Len(table) : table[i].name = name}
    IN  IF hits = {} THEN 0 ELSE table[Max(hits)].id

DescriptionLimit == 10000

OverviewLimit == 5000

\* s[:n]
Truncate(s, n) == SubSeq(s, 1, IF Len(s) < n THEN Len(s) ELSE n)

FirstByProgramCode(table, code) ==
    LET hits == {i \in 1..Len(table) : table[i].program_code = code}
    IN  IF hits = {} THEN 0 ELSE Min(hits)

\* A nullable text column holds << >> (NULL) or << text >>.
Program(id, row, university_id, specialty_id) ==
    [id |-> id, program_code |-> row.program_code,
     program_name |-> row.program_name, university_id |-> university_id,
     specialty_id |-> specialty_id, carms_year |-> row.carms_year,
     source_file |-> row.source_file, is_accepting_applications |-> TRUE,
     description |-> << >>, program_overview |-> << >>,
     curriculum_highlights |-> << >>, is_deleted |-> FALSE]

WithDescription(program, descriptions, i) ==
    IF i - 1 < Len(descriptions)
    THEN [program EXCEPT
            !.description =
                << Truncate(descriptions[i].full_content, DescriptionLimit) >>,
            !.program_overview =
                << Truncate(descriptions[i].program_overview, OverviewLimit) >>,
            !.curriculum_highlights =
                << Truncate(descriptions[i].curriculum, OverviewLimit) >>]
    ELSE program

\* A loop that adds every resolved candidate without looking its code up.
RECURSIVE UpsertPrograms_AlwaysInsert(_, _, _, _, _, _)
UpsertPrograms_AlwaysInsert(acc, batch, descriptions, unis, specs, i) ==
    IF i > Len(batch) THEN acc
    ELSE LET prog_row == batch[i]
             university_id == LookupId(unis, prog_row.university_name)
             specialty_id == LookupId(specs, prog_row.specialty_name)
         IN  UpsertPrograms_AlwaysInsert(
                 IF ~prog_row.is_valid THEN acc
                 ELSE IF university_id = 0 \/ specialty_id = 0
                 THEN [acc EXCEPT !.skipped = @ + 1]
                 ELSE [acc EXCEPT
                         !.table =
                             Append(@, WithDescription(
                                           Program(Len(@) + 1, prog_row,
                                                   university_id, specialty_id),
                                           descriptions, i)),
                         !.inserted = @ + 1],
                 batch, descriptions, unis, specs, i + 1)

\* A loop that stops at the first candidate it cannot resolve.
RECURSIVE UpsertPrograms_BreakOnMissing(_, _, _, _, _, _)
UpsertPrograms_BreakOnMissing(acc, batch, descriptions, unis, specs, i) ==
    IF i > Len(batch) THEN acc
    ELSE LET prog_row == batch[i]
             university_id == LookupId(unis, prog_row.university_name)
             specialty_id == LookupId(specs, prog_row.specialty_name)
             existing == FirstByProgramCode(acc.table, prog_row.program_code)
         IN  IF prog_row.is_valid /\ (university_id = 0 \/ specialty_id = 0)
             THEN [acc EXCEPT !.skipped = @ + 1]
             ELSE UpsertPrograms_BreakOnMissing(
                 IF ~prog_row.is_valid THEN acc
                 ELSE IF existing # 0
                 THEN [acc EXCEPT
                         !.table[existing] =
                             WithDescription(
                                 [@ EXCEPT
                                    !.program_name = prog_row.program_name,
                                    !.university_id = university_id,
                                    !.specialty_id = specialty_id,
                                    !.carms_year = prog_row.carms_year],
                                 descriptions, i),
                         !.updated = @ + 1]
                 ELSE [acc EXCEPT
                         !.table =
                             Append(@, WithDescription(
                                           Program(Len(@) + 1, prog_row,
                                                   university_id, specialty_id),
                                           descriptions, i)),
                         !.inserted = @ + 1],
                 batch, descriptions, unis, specs, i + 1)

\* A loop without the check of the resolved ids.
RECURSIVE UpsertPrograms_InsertUnresolved(_, _, _, _, _, _)
UpsertPrograms_InsertUnresolved(acc, batch, descriptions, unis, specs, i) ==
    IF i > Len(batch) THEN acc
    ELSE LET prog_row == batch[i]
             university_id == LookupId(unis, prog_row.university_name)
             specialty_id == LookupId(specs, prog_row.specialty_name)
             existing == FirstByProgramCode(acc.table, prog_row.program_code)
         IN  UpsertPrograms_InsertUnresolved(
                 IF ~prog_row.is_valid THEN acc
                 ELSE IF existing # 0
                 THEN [acc EXCEPT
                         !.table[existing] =
                             WithDescription(
                                 [@ EXCEPT
                                    !.program_name = prog_row.program_name,
                                    !.university_id = university_id,
                                    !.specialty_id = specialty_id,
                                    !.carms_year = prog_row.carms_year],
                                 descriptions, i),
                         !.updated = @ + 1]
                 ELSE [acc EXCEPT
                         !.table =
                             Append(@, WithDescription(
                                           Program(Len(@) + 1, prog_row,
                                                   university_id, specialty_id),
                                           descriptions, i)),
                         !.inserted = @ + 1],
                 batch, descriptions, unis, specs, i + 1)

\* The loop of fact_programs over rows i.. of staging_programs; row i
\* carries the index label i - 1.  unis and specs are the dimension tables
\* the lookups were built from.
RECURSIVE UpsertPrograms(_, _, _, _, _, _)
UpsertPrograms(acc, batch, descriptions, unis, specs, i) ==
    IF i > Len(batch) THEN acc
    ELSE LET prog_row == batch[i]
             university_id == LookupId(unis, prog_row.university_name)
             specialty_id == LookupId(specs, prog_row.specialty_name)
             existing == FirstByProgramCode(acc.table, prog_row.program_code)
         IN  UpsertPrograms(
                 IF ~prog_row.is_valid THEN acc
                 ELSE IF university_id = 0 \/ specialty_id = 0
                 THEN [acc EXCEPT !.skipped = @ + 1]
                 ELSE IF existing # 0
                 THEN [acc EXCEPT
                         !.table[existing] =
                             WithDescription(
                                 [@ EXCEPT
                                    !.program_name = prog_row.program_name,
                                    !.university_id = university_id,
                                    !.specialty_id = specialty_id,
                                    !.carms_year = prog_row.carms_year],
                                 descriptions, i),
                         !.updated = @ + 1]
                 ELSE [acc EXCEPT
                         !.table =
                             Append(@, WithDescription(
                                           Program(Len(@) + 1, prog_row,
                                                   university_id, specialty_id),
                                           descriptions, i)),
                         !.inserted = @ + 1],
                 batch, descriptions, unis, specs, i + 1)

\* Python's `a in b` on strings.
Contains(a, b) ==
    \E k \in 0..(Len(b) - Len(a)) : SubSeq(b, k + 1, k + Len(a)) = a

\* The orders in which `select(Program)` (no ORDER BY) may return n rows.
ScanOrders(n) ==
    {s \in [1..n -> 1..n] : \A i, j \in 1..n : s[i] = s[j] => i = j}

\* A loop without the break: the last qualifying program wins.
MatchProgram_LastMatch(carms_id, progs, scan) ==
    LET hits == {j \in 1..Len(scan) :
                    \/ Contains(progs[scan[j]].program_code, carms_id)
                    \/ Contains(carms_id, progs[scan[j]].program_code)}
    IN  IF hits = {} THEN 0 ELSE progs[scan[Max(hits)]].id

\* The `for code, pid in program_lookup.items()` loop: the id of the first
\* program in scan order whose code contains or is contained in carms_id,
\* 0 when there is none.
MatchProgram(carms_id, progs, scan) ==
    LET hits == {j \in 1..Len(scan) :
                    \/ Contains(progs[scan[j]].program_code, carms_id)
                    \/ Contains(carms_id, progs[scan[j]].program_code)}
    IN  IF hits = {} THEN 0 ELSE progs[scan[Min(hits)]].id

Matched(batch, progs, scan) ==
    SelectSeq(batch, LAMBDA row : MatchProgram(row.carms_id, progs, scan) # 0)

\* Requirement(program_id=, requirement_type=, requirement_text=,
\* is_mandatory=): the model has no column requirement_text, and its
\* NOT NULL column description is left unset.
Requirement(id, program_id, row) ==
    [id |-> id, program_id |-> program_id,
     requirement_type |-> row.requirement_type, description |-> NULL,
     is_mandatory |-> row.is_mandatory]

RequirementNotNull(r) ==
    r.program_id # 0 /\ r.requirement_type # NULL /\ r.description # NULL

\* SelectionCriteria(program_id=, criterion_type=, weight_description=):
\* neither keyword names a column; criteria_type, criteria_name and
\* description are NOT NULL and left unset.
SelectionCriteria(id, program_id, row) ==
    [id |-> id, program_id |-> program_id, criteria_type |-> NULL,
     criteria_name |-> NULL, description |-> NULL]

SelectionCriteriaNotNull(r) ==
    /\ r.program_id # 0
    /\ r.criteria_type # NULL
    /\ r.criteria_name # NULL
    /\ r.description # NULL

TrainingSite(id, program_id, row) ==
    [id |-> id, program_id |-> program_id, site_name |-> row.site_name,
     site_type |-> row.site_type]

TrainingSiteNotNull(r) == r.program_id # 0 /\ r.site_name # NULL

\* Rows a child loader adds to its session: one per matched batch row.
NewRequirements(table, batch, progs, scan) ==
    LET m == Matched(batch, progs, scan)
    IN  [k \in 1..Len(m) |->
            Requirement(Len(table) + k,
                        MatchProgram(m[k].carms_id, progs, scan), m[k])]

NewSelectionCriteria(table, batch, progs, scan) ==
    LET m == Matched(batch, progs, scan)
    IN  [k \in 1..Len(m) |->
            SelectionCriteria(Len(table) + k,
                              MatchProgram(m[k].carms_id, progs, scan), m[k])]

NewTrainingSites(table, batch, progs, scan) ==
    LET m == Matched(batch, progs, scan)
    IN  [k \in 1..Len(m) |->
            TrainingSite(Len(table) + k,
                         MatchProgram(m[k].carms_id, progs, scan), m[k])]

(***************************************************************************)
(* Part II.c  One action per loader: the whole session, from the first     *)
(* query to the commit.  A commit that violates a NOT NULL constraint      *)
(* raises, the session is rolled back and the asset fails.                 *)
(***************************************************************************)

\* The keys of the metadata a loader hands back with its Output.
MetadataKeys(asset) ==
    CASE asset \in {"dim_universities", "dim_specialties"} ->
             {"inserted", "updated", "total"}
      [] asset = "fact_programs" ->
             {"inserted", "updated", "skipped", "total"}
      [] OTHER -> {"inserted"}

\* A loader that raises hands back nothing.  The counters a loader does not
\* keep are recorded as 0 and their keys are missing from metadata.
Loaded(asset, batch, outcome, inserted, updated, skipped) ==
    /\ lastLoad' = [asset |-> asset, batch |-> batch, status |-> outcome,
                    inserted |-> inserted, updated |-> updated,
                    skipped |-> skipped, total |-> inserted + updated,
                    metadata |-> IF outcome = "ok" THEN MetadataKeys(asset)
                                 ELSE {}]
    /\ loads' = loads + 1

dim_universities(staging_universities) ==
    LET r == UpsertUniversities(
                 [table |-> universities, inserted |-> 0, updated |-> 0],
                 staging_universities, 1)
    IN  /\ universities' = r.table
        /\ Loaded("dim_universities", staging_universities, "ok",
                  r.inserted, r.updated, 0)
        /\ UNCHANGED << specialties, programs, requirements,
                        selection_criteria, training_sites >>

dim_specialties(staging_specialties) ==
    LET r == UpsertSpecialties(
                 [table |-> specialties, map |-> << >>, inserted |-> 0,
                  updated |-> 0],
                 staging_specialties, 1)
    IN  /\ specialties' =
               LinkParentSpecialties(r.table, r.map, staging_specialties, 1)
        /\ Loaded("dim_specialties", staging_specialties, "ok",
                  r.inserted, r.updated, 0)
        /\ UNCHANGED << universities, programs, requirements,
                        selection_criteria, training_sites >>

fact_programs(staging_programs, staging_program_descriptions) ==
    LET r == UpsertPrograms(
                 [table |-> programs, inserted |-> 0, updated |-> 0,
                  skipped |-> 0],
                 staging_programs, staging_program_descriptions,
                 universities, specialties, 1)
    IN  /\ programs' = r.table
        /\ Loaded("fact_programs",
                  << staging_programs, staging_program_descriptions >>, "ok",
                  r.inserted, r.updated, r.skipped)
        /\ UNCHANGED << universities, specialties, requirements,
                        selection_criteria, training_sites >>

dim_requirements(staging_requirements, scan) ==
    LET new == NewRequirements(requirements, staging_requirements, programs,
                               scan)
        committed == \A k \in 1..Len(new) : RequirementNotNull(new[k])
    IN  /\ requirements' = IF committed THEN requirements \o new
                           ELSE requirements
        /\ Loaded("dim_requirements", << staging_requirements, scan >>,
                  IF committed THEN "ok" ELSE "failed",
                  IF committed THEN Len(new) ELSE 0, 0, 0)
        /\ UNCHANGED << universities, specialties, programs,
                        selection_criteria, training_sites >>

dim_selection_criteria(staging_selection_criteria, scan) ==
    LET new == NewSelectionCriteria(selection_criteria,
                                    staging_selection_criteria, programs, scan)
        committed == \A k \in 1..Len(new) : SelectionCriteriaNotNull(new[k])
    IN  /\ selection_criteria' = IF committed THEN selection_criteria \o new
                                 ELSE selection_criteria
        /\ Loaded("dim_selection_criteria",
                  << staging_selection_criteria, scan >>,
                  IF committed THEN "ok" ELSE "failed",
                  IF committed THEN Len(new) ELSE 0, 0, 0)
        /\ UNCHANGED << universities, specialties, programs, requirements,
                        training_sites >>

dim_training_sites(staging_training_sites, scan) ==
    LET new == NewTrainingSites(training_sites, staging_training_sites,
                                programs, scan)
        committed == \A k \in 1..Len(new) : TrainingSiteNotNull(new[k])
    IN  /\ training_sites' = IF committed THEN training_sites \o new
                             ELSE training_sites
        /\ Loaded("dim_training_sites", << staging_training_sites, scan >>,
                  IF committed THEN "ok" ELSE "failed",
                  IF committed THEN Len(new) ELSE 0, 0, 0)
        /\ UNCHANGED << universities, specialties, programs, requirements,
                        selection_criteria >>

(***************************************************************************)
(* Part II.d  A full pipeline run as far as the warehouse sees it: the six *)
(* loaders in the order the engine gives them, each fed its staged batch.  *)
(***************************************************************************)

PipelineRuns == 1..2

\* The serving assets in the execution order of the whole graph.
LoaderOrder ==
    SelectSeq(TopoSort(all_assets, << >>,
                       [a \in Range(all_assets) |-> AssetIns(a)]).order,
              LAMBDA a : a \in Range(serving_assets))

RowCounts ==
    [universities |-> Len(universities), specialties |-> Len(specialties),
     programs |-> Len(programs), requirements |-> Len(requirements),
     selection_criteria |-> Len(selection_criteria),
     training_sites |-> Len(training_sites)]

StartPipelineRun ==
    /\ pipelineStep = 0
    /\ pipelineRun + 1 \in PipelineRuns
    /\ pipelineRun' = pipelineRun + 1
    /\ pipelineStep' = 1
    /\ pipelineFailed' = {}
    /\ UNCHANGED << tableVars, loads, lastLoad, staged, rowCounts >>

PipelineLoad ==
    /\ pipelineStep \in 1..Len(LoaderOrder)
    /\ \/ /\ LoaderOrder[pipelineStep] = "dim_universities"
          /\ dim_universities(staged.staging_universities)
       \/ /\ LoaderOrder[pipelineStep] = "dim_specialties"
          /\ dim_specialties(staged.staging_specialties)
       \/ /\ LoaderOrder[pipelineStep] = "fact_programs"
          /\ fact_programs(staged.staging_programs,
                           staged.staging_program_descriptions)
       \/ /\ LoaderOrder[pipelineStep] = "dim_requirements"
          /\ \E scan \in ScanOrders(Len(programs)) :
                 dim_requirements(staged.staging_requirements, scan)
       \/ /\ LoaderOrder[pipelineStep] = "dim_selection_criteria"
          /\ \E scan \in ScanOrders(Len(programs)) :
                 dim_selection_criteria(staged.staging_selection_criteria,
                                        scan)
       \/ /\ LoaderOrder[pipelineStep] = "dim_training_sites"
          /\ \E scan \in ScanOrders(Len(programs)) :
                 dim_training_sites(staged.staging_training_sites, scan)
    /\ pipelineStep' = pipelineStep + 1
    /\ pipelineFailed' = IF lastLoad'.status = "failed"
                         THEN pipelineFailed \cup {lastLoad'.asset}
                         ELSE pipelineFailed
    /\ UNCHANGED << staged, pipelineRun, rowCounts >>

EndPipelineRun ==
    /\ pipelineStep = Len(LoaderOrder) + 1
    /\ rowCounts' = Append(rowCounts, [counts |-> RowCounts,
                                       failed |-> pipelineFailed])
    /\ pipelineStep' = 0
    /\ UNCHANGED << tableVars, loads, lastLoad, staged, pipelineRun,
                    pipelineFailed >>

vars == << engineVars, warehouseVars >>

EngineInitRun ==
    /\ runState = "idle"
    /\ runNo = 0
    /\ selection = {}
    /\ received = {}
    /\ checkResult = [c \in Checks |-> "none"]
    /\ checkInput = [c \in Checks |-> << "none", 0 >>]
    /\ exitCode = -1
    /\ faults = 0
    /\ runJob = "none"
    /\ regAttempts = 0
    /\ lastReg = "none"

NoLoad ==
    [asset |-> "none", batch |-> << >>, status |-> "none", inserted |-> 0,
     updated |-> 0, skipped |-> 0, total |-> 0, metadata |-> {}]

\* No raw input has been read.
NoRaw ==
    [raw_program_descriptions_json |-> << >>, raw_discipline |-> << >>,
     raw_program_master |-> << >>]

NoStaged ==
    [staging_universities |-> << >>, staging_specialties |-> << >>,
     staging_programs |-> << >>, staging_program_descriptions |-> << >>,
     staging_requirements |-> << >>, staging_selection_criteria |-> << >>,
     staging_training_sites |-> << >>]

\* The warehouse before the first load: the tables exist and are empty.
EmptyWarehouse ==
    /\ universities = << >>
    /\ specialties = << >>
    /\ programs = << >>
    /\ requirements = << >>
    /\ selection_criteria = << >>
    /\ training_sites = << >>
    /\ loads = 0
    /\ lastLoad = NoLoad
    /\ pipelineRun = 0
    /\ pipelineStep = 0
    /\ pipelineFailed = {}
    /\ rowCounts = << >>
    /\ sessions = << >>
    /\ runStart = << >>
    /\ raw = NoRaw
    /\ sections = << >>

\* State after `defs = Definitions(assets=all_assets, ...)`.
DefinitionsInit ==
    /\ registered = all_assets
    /\ ins = [a \in Range(all_assets) |-> AssetIns(a)]
    /\ grp = [a \in Range(all_assets) |-> GroupName(a)]
    /\ regError = "none"
    /\ buildStatus = "unbuilt"
    /\ cycleNode = "none"
    /\ order = << >>
    /\ status = [a \in Range(all_assets) |-> "none"]
    /\ execCount = [a \in Range(all_assets) |-> 0]
    /\ output = [a \in Range(all_assets) |-> 0]
    /\ EngineInitRun

Init ==
    /\ DefinitionsInit
    /\ EmptyWarehouse
    /\ staged = NoStaged

Next ==
    \/ Build /\ UNCHANGED warehouseVars
    \/ \E job \in Range(all_jobs) : StartRun(job) /\ UNCHANGED warehouseVars
    \/ StartAsset /\ UNCHANGED warehouseVars
    \/ \E a \in Names, ok \in BOOLEAN :
           FinishAsset(a, ok) /\ UNCHANGED warehouseVars
    \/ \E passed \in BOOLEAN : RunCheck(passed) /\ UNCHANGED warehouseVars
    \/ EndRun /\ UNCHANGED warehouseVars

Spec == Init /\ [][Next]_vars

\* An empty graph under construction.
InitGraph ==
    /\ registered = << >>
    /\ ins = [a \in GraphNames |-> {}]
    /\ grp = [a \in GraphNames |-> GroupName(a)]
    /\ regError = "none"
    /\ buildStatus = "unbuilt"
    /\ cycleNode = "none"
    /\ order = << >>
    /\ status = [a \in GraphNames |-> "none"]
    /\ execCount = [a \in GraphNames |-> 0]
    /\ output = [a \in GraphNames |-> 0]
    /\ EngineInitRun
    /\ EmptyWarehouse
    /\ staged = NoStaged

NextGraph ==
    \/ \E name \in GraphNames, deps \in SUBSET GraphNames :
           Register(name, deps) /\ UNCHANGED warehouseVars
    \/ Build /\ UNCHANGED warehouseVars
    \/ \E job \in Range(all_jobs) : StartRun(job) /\ UNCHANGED warehouseVars
    \/ StartAsset /\ UNCHANGED warehouseVars
    \/ \E a \in Names, ok \in BOOLEAN :
           FinishAsset(a, ok) /\ UNCHANGED warehouseVars
    \/ EndRun /\ UNCHANGED warehouseVars

SpecGraph == InitGraph /\ [][NextGraph]_vars

(***************************************************************************)
(* Dimension loads in any number and order, each with a batch of its own.  *)
(***************************************************************************)
NextDimensions ==
    \/ /\ loads < MaxLoads
       /\ \E batch \in Batches(StagedUniversities, MaxBatch) :
              dim_universities(batch)
       /\ UNCHANGED << engineVars, staged, pipelineRun, pipelineStep,
                       pipelineFailed, rowCounts, concurrentVars,
                       stagingVars >>
    \/ /\ loads < MaxLoads
       /\ \E batch \in Batches(StagedSpecialties, MaxBatch) :
              dim_specialties(batch)
       /\ UNCHANGED << engineVars, staged, pipelineRun, pipelineStep,
                       pipelineFailed, rowCounts, concurrentVars,
                       stagingVars >>

SpecDimensions == Init /\ [][NextDimensions]_vars

(***************************************************************************)
(* Full pipeline runs, one after the other, on one unchanged input.        *)
(***************************************************************************)
Toronto ==
    [university_name |-> "University of Toronto", code |-> "UOT",
     province |-> "Ontario", is_francophone |-> FALSE]

Surgery ==
    [specialty_name |-> "Surgery", code |-> "SURG", category |-> "Surgical",
     is_primary_care |-> FALSE, is_subspecialty |-> FALSE,
     parent_specialty_name |-> NULL]

PipelineInputs ==
    [staging_universities : Batches({Toronto}, 1),
     staging_specialties : Batches({Surgery}, 1),
     staging_programs :
         Batches({p \in StagedPrograms :
                     p.is_valid /\ p.university_name = Toronto.university_name},
                 MaxBatch),
     staging_program_descriptions : Batches(StagedDescriptions, 1),
     staging_requirements : Batches(StagedRequirements, 1),
     staging_selection_criteria : Batches(StagedSelectionCriteria, 1),
     staging_training_sites : Batches(StagedTrainingSites, 1)]

InitPipeline ==
    /\ DefinitionsInit
    /\ EmptyWarehouse
    /\ staged \in PipelineInputs

NextPipeline ==
    \/ StartPipelineRun /\ UNCHANGED << engineVars, concurrentVars, stagingVars >>
    \/ PipelineLoad /\ UNCHANGED << engineVars, concurrentVars, stagingVars >>
    \/ EndPipelineRun /\ UNCHANGED << engineVars, concurrentVars, stagingVars >>

SpecPipeline == InitPipeline /\ [][NextPipeline]_vars


(***************************************************************************)
(* Part I.d  Properties of the asset graph engine.                         *)
(***************************************************************************)
Started == {a \in Names : status[a] \in {"running", "succeeded", "failed"}}

FullRun == runJob = "daily_etl_pipeline"

C2_FailureSkipsDependents ==
    /\ \A f \in Names : status[f] = "failed" =>
          \A x \in TransitiveDependents(f) \cap selection :
             status[x] = "skipped" /\ execCount[x] = 0
    /\ \A x \in Names : status[x] = "skipped" => execCount[x] = 0
    /\ runState = "done" =>
          /\ (\E f \in Names : status[f] = "failed") => exitCode = 1
          /\ \A a \in selection : status[a] \in Terminal
    /\ status["dim_requirements"] = "failed"
          /\ "analytics_requirements_by_specialty" \in selection =>
             /\ status["analytics_requirements_by_specialty"] = "skipped"
             /\ execCount["analytics_requirements_by_specialty"] = 0

C2_Witness ==
    /\ runState = "done"
    /\ exitCode = 1
    /\ status["dim_requirements"] = "failed"
    /\ status["analytics_requirements_by_specialty"] = "skipped"
    /\ status["analytics_program_summary"] = "succeeded"

\* C3 as stated: every asset that has started has had each of its declared
\* inputs, selected or not, materialized in the same run before it.
C3_SelectionExpandsToClosure ==
    \A a \in Started : \A d \in ins[a] :
        status[d] = "succeeded" /\ output[d] = runNo

\* C3 amended: a run with a group selection executes only the assets of that
\* group, in dependency order among themselves; an asset outside the group is
\* not executed in that run even when a selected asset depends on it, and the
\* selected asset is handed what that input stored before the run.
C3_GroupSelectionOnly ==
    runJob \notin {"none", "daily_etl_pipeline"} =>
        /\ selection = {a \in Registered : GroupName(a) = GroupOfJob(runJob)}
        /\ \A a \in Names \ selection :
              status[a] = "none" /\ execCount[a] = 0 /\ output[a] < runNo
        /\ \A r \in received : r[2] \notin selection => r[3] < runNo
        /\ \A a \in Started :
              \A d \in ins[a] \cap selection : status[d] = "succeeded"

C3_Witness ==
    /\ runState = "done"
    /\ runJob = "warehouse_load"
    /\ status["dim_universities"] = "succeeded"
    /\ status["fact_programs"] = "succeeded"
    /\ execCount["staging_universities"] = 0
    /\ << "dim_universities", "staging_universities", 0 >> \in received

\* C4: within a run every asset is materialized at most once, exactly once if
\* it was executed, and every dependent of an asset of the run was handed the
\* one result that this single materialization produced.
C4_ExactlyOncePerRun ==
    /\ \A a \in Names : execCount[a] <= 1
    /\ \A a \in Names : (a \in Started) <=> (execCount[a] = 1)
    /\ \A r \in received :
          r[2] \in selection => r[3] = runNo /\ r[3] = output[r[2]]
    /\ \A r1, r2 \in received : r1[2] = r2[2] => r1[3] = r2[3]

C4_Witness ==
    /\ runState = "done"
    /\ FullRun
    /\ execCount["staging_programs"] = 1
    /\ \A a \in {"staging_universities", "staging_program_descriptions",
                 "fact_programs"} :
          << a, "staging_programs", runNo >> \in received
    /\ \A a \in {"dim_requirements", "dim_selection_criteria",
                 "dim_training_sites", "analytics_program_summary",
                 "analytics_geographic_distribution"} :
          << a, "fact_programs", runNo >> \in received

RunStep ==
    \/ StartAsset
    \/ \E a \in Names, ok \in BOOLEAN : FinishAsset(a, ok)
    \/ \E passed \in BOOLEAN : RunCheck(passed)
    \/ EndRun

\* Work left in the current run.
Remaining ==
    2 * Cardinality({a \in Names : status[a] = "pending"})
    + Cardinality({a \in Names : status[a] = "running"})
    + Cardinality({c \in Checks :
                     /\ checkResult[c] = "none"
                     /\ status[CheckAsset(c)] \in
                           {"pending", "running", "succeeded"}})

FailedUpstream(a) ==
    \E f \in Names : status[f] = "failed" /\ a \in TransitiveDependents(f)

C5_Final ==
    runState = "done" =>
        /\ \A a \in selection : status[a] \in Terminal
        /\ \A a \in selection :
              ~FailedUpstream(a) =>
                  execCount[a] = 1 /\ status[a] \in {"succeeded", "failed"}

\* C5: a run always comes to its end: while it is running a step is always
\* possible and every step reduces the work left; at the end every selected
\* asset is succeeded, failed or skipped, and every asset that is not
\* downstream of a failed asset has been executed.
C5_RunCompletes ==
    /\ [](C5_Final)
    /\ [](runState = "running" => ENABLED RunStep)
    /\ [][runState = "running" /\ runState' = "running"
             => Remaining' < Remaining]_vars

C5_Witness ==
    /\ runState = "done"
    /\ FullRun
    /\ status["raw_discipline"] = "failed"
    /\ status["dim_specialties"] = "skipped"
    /\ status["dim_universities"] = "succeeded"
    /\ status["staging_training_sites"] = "succeeded"

\* C6: when the registered graph has a cycle, build fails with a cycle error
\* naming a registered node, leaves no execution order at all, and no run
\* starts and no asset is executed.
C6_CycleFailsBuild ==
    HasCycle =>
        /\ buildStatus \in {"unbuilt", "CycleError"}
        /\ order = << >>
        /\ buildStatus = "CycleError" => cycleNode \in Registered
        /\ runNo = 0
        /\ \A a \in Names : execCount[a] = 0 /\ status[a] = "none"

C6_Witness ==
    /\ buildStatus = "CycleError"
    /\ Len(registered) = 3
    /\ ins[registered[1]] = {}
    /\ ins[registered[2]] = {registered[3]}
    /\ ins[registered[3]] = {registered[2]}

NoDuplicateNames ==
    \A i, j \in 1..Len(registered) : registered[i] = registered[j] => i = j

\* C7: a register call whose name is already registered raises the
\* duplicate-asset error and leaves the registered assets and their inputs
\* unchanged; registered names stay distinct, and the error arises before any
\* run, so that no asset has executed.
C7_DuplicateRegistration ==
    /\ [](NoDuplicateNames)
    /\ [](regError = "DuplicateAssetError" =>
             /\ runNo = 0
             /\ \A a \in Names : execCount[a] = 0 /\ status[a] = "none")
    /\ [][regAttempts' # regAttempts /\ lastReg' \in Registered
             => /\ regError' = "DuplicateAssetError"
                /\ registered' = registered
                /\ ins' = ins
                /\ grp' = grp]_vars

C7_Witness ==
    /\ regError = "DuplicateAssetError"
    /\ Len(registered) = 2
    /\ lastReg = registered[1]
    /\ ins[registered[1]] = {}

\* C8: a check has run only if its asset succeeded in this run, and it saw the
\* output that this run's materialization produced; when the run ends every
\* check of a succeeded asset has run; a failed check leaves its asset
\* succeeded with its output recorded, and an asset is skipped only
\* downstream of a failed asset, never because of a check.
C8_ChecksNonBlocking ==
    /\ \A c \in Checks : checkResult[c] # "none" =>
          /\ checkInput[c] = << "succeeded", runNo >>
          /\ status[CheckAsset(c)] = "succeeded"
          /\ output[CheckAsset(c)] = runNo
    /\ runState = "done" =>
          \A c \in Checks : status[CheckAsset(c)] = "succeeded"
                               => checkResult[c] # "none"
    /\ \A x \in Names : status[x] = "skipped" => FailedUpstream(x)
    /\ runState = "done" /\ (\A a \in Names : status[a] # "failed")
          => exitCode = 0

C8_Witness ==
    /\ runState = "done"
    /\ FullRun
    /\ checkResult["check_staging_programs_completeness"] = "failed"
    /\ checkResult["check_programs_referential_integrity"] = "failed"
    /\ \A a \in selection : status[a] = "succeeded"

(***************************************************************************)
(* Part II.f  One loader call on a warehouse that earlier loads have       *)
(* filled.  The warehouse is drawn from the results of the loaders on seed *)
(* batches; `loads` counts the calls made on it.                           *)
(***************************************************************************)

\* BaseModel.soft_delete
soft_delete(row) == [row EXCEPT !.is_deleted = TRUE]

\* A loader with a single commit raises before it: the session is rolled
\* back and nothing it added or changed reaches the tables.
RaisesBeforeCommit(asset, batch) ==
    /\ UNCHANGED tableVars
    /\ Loaded(asset, batch, "failed", 0, 0, 0)

\* dim_specialties raises in its second pass: the first pass is committed,
\* the parent links of the second pass are rolled back.
dim_specialties_raises_in_second_pass(staging_specialties) ==
    LET r == UpsertSpecialties(
                 [table |-> specialties, map |-> << >>, inserted |-> 0,
                  updated |-> 0],
                 staging_specialties, 1)
    IN  /\ specialties' = r.table
        /\ Loaded("dim_specialties", staging_specialties, "failed", 0, 0, 0)
        /\ UNCHANGED << universities, programs, requirements,
                        selection_criteria, training_sites >>

McGill ==
    [university_name |-> "McGill University", code |-> "MU",
     province |-> "Quebec", is_francophone |-> TRUE]

SeedUniversities == Batches({Toronto}, 1) \cup {<< Toronto, McGill >>}

SeedSpecialties == Batches({Surgery}, 1)

SeedPrograms ==
    Batches({p \in StagedPrograms :
                p.is_valid /\ p.university_name = Toronto.university_name},
            MaxBatch)

\* The first row of a table soft-deleted through the API layer, or not.
MaybeSoftDeleted(table) ==
    {table} \cup
        (IF table = << >> THEN {}
         ELSE {[table EXCEPT ![1] = soft_delete(@)]})

SeededUniversities ==
    UNION {MaybeSoftDeleted(
               UpsertUniversities([table |-> << >>, inserted |-> 0,
                                   updated |-> 0], batch, 1).table) :
              batch \in SeedUniversities}

SeededSpecialties ==
    UNION {MaybeSoftDeleted(
               UpsertSpecialties([table |-> << >>, map |-> << >>,
                                  inserted |-> 0, updated |-> 0],
                                 batch, 1).table) :
              batch \in SeedSpecialties}

SeededPrograms(unis, specs) ==
    {UpsertPrograms([table |-> << >>, inserted |-> 0, updated |-> 0,
                     skipped |-> 0], batch, << >>, unis, specs, 1).table :
        batch \in SeedPrograms}

InitLoad ==
    /\ DefinitionsInit
    /\ universities \in SeededUniversities
    /\ specialties \in SeededSpecialties
    /\ programs \in SeededPrograms(universities, specialties)
    /\ requirements = << >>
    /\ selection_criteria = << >>
    /\ training_sites = << >>
    /\ loads = 0
    /\ lastLoad = NoLoad
    /\ staged = NoStaged
    /\ pipelineRun = 0
    /\ pipelineStep = 0
    /\ pipelineFailed = {}
    /\ rowCounts = << >>
    /\ sessions = << >>
    /\ runStart = << >>
    /\ raw = NoRaw
    /\ sections = << >>

notLoadVars == << engineVars, staged, pipelineRun, pipelineStep,
                  pipelineFailed, rowCounts, concurrentVars,
                       stagingVars >>

NextLoad ==
    \/ /\ loads = 0
       /\ \E batch \in Batches(StagedUniversities, MaxBatch) :
              dim_universities(batch)
       /\ UNCHANGED notLoadVars
    \/ /\ loads = 0
       /\ \E batch \in Batches(StagedSpecialties, MaxBatch) :
              dim_specialties(batch)
       /\ UNCHANGED notLoadVars
    \/ /\ loads = 0
       /\ \E batch \in Batches(StagedPrograms, MaxBatch),
             descriptions \in Batches(StagedDescriptions, 1) :
              fact_programs(batch, descriptions)
       /\ UNCHANGED notLoadVars
    \/ /\ loads = 0
       /\ \E batch \in Batches(StagedRequirements, MaxBatch),
             scan \in ScanOrders(Len(programs)) :
              dim_requirements(batch, scan)
       /\ UNCHANGED notLoadVars
    \/ /\ loads = 0
       /\ \E batch \in Batches(StagedSelectionCriteria, MaxBatch),
             scan \in ScanOrders(Len(programs)) :
              dim_selection_criteria(batch, scan)
       /\ UNCHANGED notLoadVars
    \/ /\ loads = 0
       /\ \E batch \in Batches(StagedTrainingSites, MaxBatch),
             scan \in ScanOrders(Len(programs)) :
              dim_training_sites(batch, scan)
       /\ UNCHANGED notLoadVars
    \/ /\ loads = 0
       /\ \/ RaisesBeforeCommit("dim_universities", << >>)
          \/ \E asset \in Range(serving_assets)
                           \ {"dim_universities", "dim_specialties"} :
                 RaisesBeforeCommit(asset, << << >>, << >> >>)
       /\ UNCHANGED notLoadVars
    \/ /\ loads = 0
       /\ \E batch \in Batches(StagedSpecialties, MaxBatch) :
              \/ RaisesBeforeCommit("dim_specialties", batch)
              \/ dim_specialties_raises_in_second_pass(batch)
       /\ UNCHANGED notLoadVars

SpecLoad == InitLoad /\ [][NextLoad]_vars

(***************************************************************************)
(* Part II.g  Loaders without a dependency between them executing at the   *)
(* same time, each in its own session: the two dimension loaders, or the   *)
(* three child loaders.  A session computes its writes from the committed  *)
(* rows it reads and hands them to the database when it commits.           *)
(***************************************************************************)

ConcurrentGroups ==
    {{"dim_universities", "dim_specialties"},
     {"dim_requirements", "dim_selection_criteria", "dim_training_sites"}}

Tables ==
    [universities |-> universities, specialties |-> specialties,
     programs |-> programs, requirements |-> requirements,
     selection_criteria |-> selection_criteria,
     training_sites |-> training_sites]

Cardiac ==
    [specialty_name |-> "Surgery - Cardiac", code |-> "SC",
     category |-> "Surgical", is_primary_care |-> FALSE,
     is_subspecialty |-> TRUE, parent_specialty_name |-> "Surgery"]

\* The staged tables the loaders of a group read.
ConcurrentInputs(group) ==
    IF "dim_universities" \in group
    THEN [staging_universities : Batches({Toronto, McGill}, MaxBatch),
          staging_specialties : Batches({Surgery, Cardiac}, MaxBatch),
          staging_programs : {<< >>},
          staging_program_descriptions : {<< >>},
          staging_requirements : {<< >>},
          staging_selection_criteria : {<< >>},
          staging_training_sites : {<< >>}]
    ELSE [staging_universities : {<< >>},
          staging_specialties : {<< >>},
          staging_programs : {<< >>},
          staging_program_descriptions : {<< >>},
          staging_requirements : Batches(StagedRequirements, 1),
          staging_selection_criteria : Batches(StagedSelectionCriteria, 1),
          staging_training_sites : Batches(StagedTrainingSites, 1)]

IdleSession == [pc |-> "idle", pending |-> << >>, scan |-> << >>, commits |-> 0]

\* The rows a child loader's session holds before its commit.
ChildRows(asset, scan) ==
    CASE asset = "dim_requirements" ->
             NewRequirements(requirements, staged.staging_requirements,
                             programs, scan)
      [] asset = "dim_selection_criteria" ->
             NewSelectionCriteria(selection_criteria,
                                  staged.staging_selection_criteria,
                                  programs, scan)
      [] asset = "dim_training_sites" ->
             NewTrainingSites(training_sites, staged.staging_training_sites,
                              programs, scan)

ChildRowsNotNull(asset, rows) ==
    \A k \in 1..Len(rows) :
        CASE asset = "dim_requirements" -> RequirementNotNull(rows[k])
          [] asset = "dim_selection_criteria" ->
                 SelectionCriteriaNotNull(rows[k])
          [] asset = "dim_training_sites" -> TrainingSiteNotNull(rows[k])

\* The loop of a loader up to its (first) commit.
SessionWork(asset) ==
    /\ asset \in DOMAIN sessions
    /\ sessions[asset].pc = "idle"
    /\ \/ /\ asset = "dim_universities"
          /\ sessions' = [sessions EXCEPT
                 ![asset].pc = "flushed",
                 ![asset].pending =
                     UpsertUniversities([table |-> universities,
                                         inserted |-> 0, updated |-> 0],
                                        staged.staging_universities, 1)]
       \/ /\ asset = "dim_specialties"
          /\ sessions' = [sessions EXCEPT
                 ![asset].pc = "flushed",
                 ![asset].pending =
                     UpsertSpecialties([table |-> specialties, map |-> << >>,
                                        inserted |-> 0, updated |-> 0],
                                       staged.staging_specialties, 1)]
       \/ /\ asset \notin {"dim_universities", "dim_specialties"}
          /\ \E scan \in ScanOrders(Len(programs)) :
                 sessions' = [sessions EXCEPT
                     ![asset].pc = "flushed",
                     ![asset].scan = scan,
                     ![asset].pending = ChildRows(asset, scan)]
    /\ UNCHANGED << tableVars, runStart >>

\* session.commit() of a loader: its (first) transaction.
SessionCommit(asset) ==
    /\ asset \in DOMAIN sessions
    /\ sessions[asset].pc = "flushed"
    /\ \/ /\ asset = "dim_universities"
          /\ universities' = sessions[asset].pending.table
          /\ sessions' = [sessions EXCEPT ![asset].pc = "done",
                                          ![asset].commits = @ + 1]
          /\ UNCHANGED << specialties, programs, requirements,
                          selection_criteria, training_sites >>
       \/ /\ asset = "dim_specialties"
          /\ specialties' = sessions[asset].pending.table
          /\ sessions' = [sessions EXCEPT ![asset].pc = "second_pass",
                                          ![asset].commits = @ + 1]
          /\ UNCHANGED << universities, programs, requirements,
                          selection_criteria, training_sites >>
       \/ /\ asset \notin {"dim_universities", "dim_specialties"}
          /\ ChildRowsNotNull(asset, sessions[asset].pending)
          /\ requirements' =
                 IF asset = "dim_requirements"
                 THEN requirements \o sessions[asset].pending
                 ELSE requirements
          /\ selection_criteria' =
                 IF asset = "dim_selection_criteria"
                 THEN selection_criteria \o sessions[asset].pending
                 ELSE selection_criteria
          /\ training_sites' =
                 IF asset = "dim_training_sites"
                 THEN training_sites \o sessions[asset].pending
                 ELSE training_sites
          /\ sessions' = [sessions EXCEPT ![asset].pc = "done",
                                          ![asset].commits = @ + 1]
          /\ UNCHANGED << universities, specialties, programs >>
       \/ /\ asset \notin {"dim_universities", "dim_specialties"}
          /\ ~ChildRowsNotNull(asset, sessions[asset].pending)
          /\ sessions' = [sessions EXCEPT ![asset].pc = "failed"]
          /\ UNCHANGED tableVars
    /\ UNCHANGED runStart

\* The second pass of dim_specialties and its commit: a second transaction.
SessionSecondPass ==
    /\ "dim_specialties" \in DOMAIN sessions
    /\ sessions["dim_specialties"].pc = "second_pass"
    /\ specialties' =
           LinkParentSpecialties(specialties,
                                 sessions["dim_specialties"].pending.map,
                                 staged.staging_specialties, 1)
    /\ sessions' = [sessions EXCEPT !["dim_specialties"].pc = "done",
                                    !["dim_specialties"].commits = @ + 1]
    /\ UNCHANGED << universities, programs, requirements, selection_criteria,
                    training_sites, runStart >>

InitConcurrent ==
    /\ DefinitionsInit
    /\ universities \in SeededUniversities
    /\ specialties \in SeededSpecialties
    /\ requirements = << >>
    /\ selection_criteria = << >>
    /\ training_sites = << >>
    /\ loads = 0
    /\ lastLoad = NoLoad
    /\ pipelineRun = 0
    /\ pipelineStep = 0
    /\ pipelineFailed = {}
    /\ rowCounts = << >>
    /\ \E group \in ConcurrentGroups :
           /\ sessions = [asset \in group |-> IdleSession]
           /\ staged \in ConcurrentInputs(group)
           /\ programs \in IF "dim_universities" \in group
                           THEN {<< >>}
                           ELSE SeededPrograms(universities, specialties)
    /\ runStart = Tables
    /\ raw = NoRaw
    /\ sections = << >>

notSessionVars == << engineVars, stagingVars, loads, lastLoad, staged,
                     pipelineRun,
                     pipelineStep, pipelineFailed, rowCounts >>

NextConcurrent ==
    \/ \E asset \in Range(serving_assets) :
           SessionWork(asset) /\ UNCHANGED notSessionVars
    \/ \E asset \in Range(serving_assets) :
           SessionCommit(asset) /\ UNCHANGED notSessionVars
    \/ SessionSecondPass /\ UNCHANGED notSessionVars

SpecConcurrent == InitConcurrent /\ [][NextConcurrent]_vars

(***************************************************************************)
(* Part III.a  Text.  A text is a sequence of one-character strings; the   *)
(* operators below are the string methods the staging assets call.         *)
(***************************************************************************)

Whitespace == {" ", "\n", "\t"}

LowerCase ==
    [c \in {"A", "B", "C", "D", "E", "F", "G", "H", "I", "J", "K", "L", "M",
            "N", "O", "P", "Q", "R", "S", "T", "U", "V", "W", "X", "Y", "Z"}
        |-> CASE c = "A" -> "a" [] c = "B" -> "b" [] c = "C" -> "c"
              [] c = "D" -> "d" [] c = "E" -> "e" [] c = "F" -> "f"
              [] c = "G" -> "g" [] c = "H" -> "h" [] c = "I" -> "i"
              [] c = "J" -> "j" [] c = "K" -> "k" [] c = "L" -> "l"
              [] c = "M" -> "m" [] c = "N" -> "n" [] c = "O" -> "o"
              [] c = "P" -> "p" [] c = "Q" -> "q" [] c = "R" -> "r"
              [] c = "S" -> "s" [] c = "T" -> "t" [] c = "U" -> "u"
              [] c = "V" -> "v" [] c = "W" -> "w" [] c = "X" -> "x"
              [] c = "Y" -> "y" [] c = "Z" -> "z"]

\* str.lower()
lower(text) ==
    [i \in 1..Len(text) |->
        IF text[i] \in DOMAIN LowerCase THEN LowerCase[text[i]] ELSE text[i]]

\* str.strip()
strip(text) ==
    LET keep == {i \in 1..Len(text) : text[i] \notin Whitespace}
    IN  IF keep = {} THEN << >> ELSE SubSeq(text, Min(keep), Max(keep))

\* str.lstrip(c)
lstrip(text, c) ==
    LET keep == {i \in 1..Len(text) : text[i] # c}
    IN  IF keep = {} THEN << >> ELSE SubSeq(text, Min(keep), Len(text))

\* str.split(c): the pieces between the occurrences of the character c.
RECURSIVE split(_, _)
split(text, c) ==
    LET hits == {i \in 1..Len(text) : text[i] = c}
    IN  IF hits = {} THEN << text >>
        ELSE << SubSeq(text, 1, Min(hits) - 1) >>
                 \o split(SubSeq(text, Min(hits) + 1, Len(text)), c)

\* c.join(pieces)
RECURSIVE join(_, _)
join(pieces, c) ==
    IF pieces = << >> THEN << >>
    ELSE IF Len(pieces) = 1 THEN pieces[1]
    ELSE pieces[1] \o << c >> \o join(Tail(pieces), c)

\* str.startswith(c)
startswith(text, c) == Len(text) >= 1 /\ text[1] = c

\* text[:n]
Prefix(text, n) == SubSeq(text, 1, IF Len(text) < n THEN Len(text) ELSE n)

\* str.find(piece): the first position (from 1) of piece in text, 0 if none.
find(text, piece) ==
    LET hits == {k \in 1..(Len(text) - Len(piece) + 1) :
                    SubSeq(text, k, k + Len(piece) - 1) = piece}
    IN  IF hits = {} THEN 0 ELSE Min(hits)

(***************************************************************************)
(* Part III.b  staging_program_descriptions: the section parser.  A dict   *)
(* is a sequence of [key, value] in insertion order.                       *)
(***************************************************************************)

\* An assignment that leaves a key that is already present alone.
DictSet_KeepFirst(dict, key, value) ==
    IF \E k \in 1..Len(dict) : dict[k].key = key
    THEN dict
    ELSE Append(dict, [key |-> key, value |-> value])

\* dict[key] = value
DictSet(dict, key, value) ==
    IF \E k \in 1..Len(dict) : dict[k].key = key
    THEN [k \in 1..Len(dict) |->
             IF dict[k].key = key THEN [key |-> key, value |-> value]
             ELSE dict[k]]
    ELSE Append(dict, [key |-> key, value |-> value])

\* dict.get(key, default)
DictGet(dict, key, default) ==
    IF \E k \in 1..Len(dict) : dict[k].key = key
    THEN dict[CHOOSE k \in 1..Len(dict) : dict[k].key = key].value
    ELSE default

\* `if current_section:` is false for None and for the empty title.
Truthy(current_section) == current_section # NULL /\ current_section # << >>

\* The section closed by a heading line or by the end of the input.
SaveSection(acc) ==
    IF Truthy(acc.current_section)
    THEN DictSet(acc.sections, acc.current_section,
                 strip(join(acc.current_content, "\n")))
    ELSE acc.sections

\* The loop over page_content.split('\n').
RECURSIVE ParseLines(_, _, _)
ParseLines(acc, lines, i) ==
    IF i > Len(lines) THEN acc
    ELSE ParseLines(
             IF startswith(lines[i], "#")
             THEN [sections |-> SaveSection(acc),
                   current_section |-> strip(lstrip(lines[i], "#")),
                   current_content |-> << >>]
             ELSE [acc EXCEPT !.current_content = Append(@, lines[i])],
             lines, i + 1)

\* The `sections` dict built for one item.
ParseSections(page_content) ==
    SaveSection(ParseLines([sections |-> << >>, current_section |-> NULL,
                            current_content |-> << >>],
                           split(page_content, "\n"), 1))

\* carms_id = program_id.split('|')[-1] if '|' in program_id else program_id
CarmsIdOf(program_id) ==
    LET pieces == split(program_id, "|") IN pieces[Len(pieces)]

DescriptionRow(item) ==
    LET parsed == ParseSections(item.page_content)
    IN  [carms_id |-> CarmsIdOf(item.id),
         full_content |-> item.page_content,
         program_overview |->
             DictGet(parsed, << "P", "r", "o", "g", "r", "a", "m", " ", "O",
                                "v", "e", "r", "v", "i", "e", "w" >>, << >>),
         curriculum |->
             DictGet(parsed, << "C", "u", "r", "r", "i", "c", "u", "l", "u",
                                "m" >>,
                     DictGet(parsed, << "C", "u", "r", "r", "i", "c", "u", "l",
                                        "u", "m", " ", "H", "i", "g", "h", "l",
                                        "i", "g", "h", "t", "s" >>, << >>)),
         selection_criteria |->
             DictGet(parsed, << "S", "e", "l", "e", "c", "t", "i", "o", "n",
                                " ", "C", "r", "i", "t", "e", "r", "i", "a" >>,
                                << >>),
         application_process |->
             DictGet(parsed, << "A", "p", "p", "l", "i", "c", "a", "t", "i",
                                "o", "n", " ", "P", "r", "o", "c", "e", "s",
                                "s" >>, << >>),
         contact_info |->
             DictGet(parsed, << "C", "o", "n", "t", "a", "c", "t", " ", "I",
                                "n", "f", "o", "r", "m", "a", "t", "i", "o",
                                "n" >>, << >>),
         content_sections |-> [k \in 1..Len(parsed) |-> parsed[k].key],
         total_length |-> Len(item.page_content)]

\* One row per item of the raw list; `sections` is left as the loop leaves
\* it, holding the sections of the last item.
staging_program_descriptions ==
    LET items == raw.raw_program_descriptions_json
    IN  /\ items # << >>
        /\ sections' = ParseSections(items[Len(items)].page_content)
        /\ staged' = [staged EXCEPT
               !.staging_program_descriptions =
                   [k \in 1..Len(items) |-> DescriptionRow(items[k])]]
        /\ UNCHANGED raw

(***************************************************************************)
(* Part III.c  The field extractors: staging_requirements,                 *)
(* staging_selection_criteria and staging_training_sites.                  *)
(***************************************************************************)

\* requirement_patterns, in dict order: the keyword each pattern starts with
\* and whether an optional "s" follows it.
requirement_patterns ==
    << [req_type |-> "Eligibility", keyword |-> << "e", "l", "i", "g", "i",
                                                   "b", "i", "l", "i", "t",
                                                   "y" >>,
        plural |-> FALSE],
       [req_type |-> "Prerequisites", keyword |-> << "p", "r", "e", "r", "e",
                                                     "q", "u", "i", "s", "i",
                                                     "t", "e" >>,
        plural |-> TRUE],
       [req_type |-> "Language", keyword |-> << "l", "a", "n", "g", "u", "a",
                                                "g", "e", " ", "r", "e", "q",
                                                "u", "i", "r", "e", "m", "e",
                                                "n", "t" >>,
        plural |-> TRUE],
       [req_type |-> "Citizenship", keyword |-> << "c", "i", "t", "i", "z",
                                                   "e", "n", "s", "h", "i",
                                                   "p" >>,
        plural |-> FALSE],
       [req_type |-> "Visa", keyword |-> << "v", "i", "s", "a" >>,
                                            plural |-> FALSE] >>

\* The class [:\s] of the patterns.
SeparatorChars == {":", " ", "\n", "\t"}

RequirementTextLimit == 500

\* The position after `(?i)keyword[s]?` matched at p, 0 when it does not match.
AfterKeyword(text, pattern, p) ==
    LET e == p + Len(pattern.keyword)
    IN  IF e - 1 > Len(text) THEN 0
        ELSE IF lower(SubSeq(text, p, e - 1)) # pattern.keyword THEN 0
        ELSE IF pattern.plural /\ e <= Len(text) /\ lower(<< text[e] >>) = << "s" >>
        THEN e + 1
        ELSE e

\* The position after the longest run `[:\s]+` starting at e (greedy).
AfterSeparators(text, e) ==
    LET stops == {k \in e..Len(text) : text[k] \notin SeparatorChars}
    IN  IF stops = {} THEN Len(text) + 1 ELSE Min(stops)

\* `(?=\n\n|\n#|$)` at position q; `$` holds at the end of the text and
\* before a newline that ends it.
LookaheadAt(text, q) ==
    \/ q = Len(text) + 1
    \/ q = Len(text) /\ text[q] = "\n"
    \/ /\ q + 1 <= Len(text)
       /\ text[q] = "\n"
       /\ text[q + 1] \in {"\n", "#"}

\* re.match of the whole pattern at p: 0 when none, else [from, to] with the
\* group `(.*?)` being text[from .. to - 1].
PatternAt(text, pattern, p) ==
    LET e == AfterKeyword(text, pattern, p)
        s == IF e = 0 THEN 0 ELSE AfterSeparators(text, e)
    IN  IF e = 0 \/ s = e THEN [from |-> 0, to |-> 0]
        ELSE [from |-> s,
              to |-> Min({q \in s..(Len(text) + 1) : LookaheadAt(text, q)})]

\* re.findall(pattern, content, re.DOTALL): the groups of the successive
\* non-overlapping matches from position `start` on.
RECURSIVE findall(_, _, _)
findall(pattern, content, start) ==
    LET at == {p \in start..Len(content) :
                  PatternAt(content, pattern, p).from # 0}
    IN  IF at = {} THEN << >>
        ELSE LET m == PatternAt(content, pattern, Min(at))
             IN  << SubSeq(content, m.from, m.to - 1) >>
                     \o findall(pattern, content, m.to)

\* Rows whose flag is set by the marker words in lower case only.
RECURSIVE RequirementRows_CaseSensitive(_, _, _, _)
RequirementRows_CaseSensitive(carms_id, req_type, matches, k) ==
    IF k > Len(matches) THEN << >>
    ELSE LET requirement_text == Prefix(strip(matches[k]), RequirementTextLimit)
             rest == RequirementRows_CaseSensitive(carms_id, req_type, matches, k + 1)
         IN  IF requirement_text # << >>
             THEN << [carms_id |-> carms_id, requirement_type |-> req_type,
                      requirement_text |-> requirement_text,
                      is_mandatory |->
                          \/ Contains(<< "r", "e", "q", "u", "i", "r", "e",
                                         "d" >>, requirement_text)
                          \/ Contains(<< "m", "u", "s", "t" >>,
                                         requirement_text)] >>
                      \o rest
             ELSE rest

\* The rows one pattern adds for the matches from the k-th on.
RECURSIVE RequirementRows(_, _, _, _)
RequirementRows(carms_id, req_type, matches, k) ==
    IF k > Len(matches) THEN << >>
    ELSE LET requirement_text == Prefix(strip(matches[k]), RequirementTextLimit)
             rest == RequirementRows(carms_id, req_type, matches, k + 1)
         IN  IF requirement_text # << >>
             THEN << [carms_id |-> carms_id, requirement_type |-> req_type,
                      requirement_text |-> requirement_text,
                      is_mandatory |->
                          \/ Contains(<< "r", "e", "q", "u", "i", "r", "e",
                                         "d" >>, lower(requirement_text))
                          \/ Contains(<< "m", "u", "s", "t" >>,
                                         lower(requirement_text))] >>
                      \o rest
             ELSE rest

\* The rows of one description row, pattern by pattern.
RECURSIVE ExtractRequirements(_, _)
ExtractRequirements(row, n) ==
    IF n > Len(requirement_patterns) THEN << >>
    ELSE RequirementRows(row.carms_id, requirement_patterns[n].req_type,
                         findall(requirement_patterns[n], row.full_content, 1),
                         1)
             \o ExtractRequirements(row, n + 1)

\* The rows appended for the successive description rows, in order.
RECURSIVE Concat(_)
Concat(lists) ==
    IF lists = << >> THEN << >> ELSE Head(lists) \o Concat(Tail(lists))

RequirementsOf(row) == ExtractRequirements(row, 1)

staging_requirements ==
    /\ staged.staging_program_descriptions # << >>
    /\ staged' = [staged EXCEPT
           !.staging_requirements =
               Concat([k \in 1..Len(staged.staging_program_descriptions) |->
                          RequirementsOf(
                              staged.staging_program_descriptions[k])])]
    /\ UNCHANGED << raw, sections >>

\* criteria_keywords, in dict order.
criteria_keywords ==
    << [criterion_type |-> "Academic Performance",
        keywords |-> << << "a", "c", "a", "d", "e", "m", "i", "c" >>, << "g",
                           "r", "a", "d", "e", "s" >>, << "g", "p", "a" >>,
                           << "t", "r", "a", "n", "s", "c", "r", "i", "p",
                           "t" >>,
                        << "s", "c", "o", "r", "e", "s" >> >>],
       [criterion_type |-> "Research",
        keywords |-> << << "r", "e", "s", "e", "a", "r", "c", "h" >>, << "p",
                           "u", "b", "l", "i", "c", "a", "t", "i", "o", "n",
                           "s" >>, << "s", "c", "h", "o", "l", "a", "r", "l",
                           "y" >> >>],
       [criterion_type |-> "Clinical Skills",
        keywords |-> << << "c", "l", "i", "n", "i", "c", "a", "l" >>, << "c",
                           "l", "e", "r", "k", "s", "h", "i", "p" >>, << "r",
                           "o", "t", "a", "t", "i", "o", "n", "s" >>,
                        << "e", "l", "e", "c", "t", "i", "v", "e", "s" >> >>],
       [criterion_type |-> "Leadership",
        keywords |-> << << "l", "e", "a", "d", "e", "r", "s", "h", "i", "p" >>,
                           << "e", "x", "t", "r", "a", "c", "u", "r", "r", "i",
                           "c", "u", "l", "a", "r" >>,
                        << "v", "o", "l", "u", "n", "t", "e", "e", "r" >> >>],
       [criterion_type |-> "Personal Qualities",
        keywords |-> << << "p", "e", "r", "s", "o", "n", "a", "l" >>, << "c",
                           "h", "a", "r", "a", "c", "t", "e", "r" >>, << "i",
                           "n", "t", "e", "g", "r", "i", "t", "y" >>,
                        << "c", "o", "m", "p", "a", "s", "s", "i", "o",
                           "n" >> >>],
       [criterion_type |-> "Interview Performance",
        keywords |-> << << "i", "n", "t", "e", "r", "v", "i", "e", "w" >>,
                           << "m", "m", "i" >>, << "c", "o", "m", "m", "u",
                           "n", "i", "c", "a", "t", "i", "o", "n" >> >>],
       [criterion_type |-> "References",
        keywords |-> << << "r", "e", "f", "e", "r", "e", "n", "c", "e" >>,
                           << "l", "e", "t", "t", "e", "r" >>, << "r", "e",
                           "c", "o", "m", "m", "e", "n", "d", "a", "t", "i",
                           "o", "n" >> >>],
       [criterion_type |-> "Fit",
        keywords |-> << << "f", "i", "t" >>, << "a", "l", "i", "g", "n", "m",
                           "e", "n", "t" >>, << "v", "a", "l", "u", "e",
                           "s" >>, << "c", "u", "l", "t", "u", "r",
                           "e" >> >>] >>

ExcerptRadius == 100

ExcerptLimit == 200

\* The row of one criterion type for one content, << >> without a mention.
CriterionRows(carms_id, content, criterion) ==
    LET content_lower == lower(content)
        present == {k \in 1..Len(criterion.keywords) :
                       Contains(criterion.keywords[k], content_lower)}
        mentions == Cardinality(present)
    IN  IF mentions > 0
        THEN LET first_keyword == criterion.keywords[Min(present)]
                 pos == find(content_lower, first_keyword) - 1
                 start == IF pos - ExcerptRadius < 0 THEN 0
                          ELSE pos - ExcerptRadius
                 end == IF Len(content) < pos + ExcerptRadius
                        THEN Len(content) ELSE pos + ExcerptRadius
                 excerpt == strip(SubSeq(content, start + 1, end))
             IN  << [carms_id |-> carms_id,
                     criterion_type |-> criterion.criterion_type,
                     mentions |-> mentions,
                     description |-> Prefix(excerpt, ExcerptLimit)] >>
        ELSE << >>

RECURSIVE ExtractCriteria(_, _, _)
ExtractCriteria(carms_id, content, n) ==
    IF n > Len(criteria_keywords) THEN << >>
    ELSE CriterionRows(carms_id, content, criteria_keywords[n])
             \o ExtractCriteria(carms_id, content, n + 1)

\* content = row.get('selection_criteria', '') + ' ' + row.get('full_content', '')
CriteriaOf(row) ==
    ExtractCriteria(row.carms_id,
                    row.selection_criteria \o << " " >> \o row.full_content,
                                                 1)

staging_selection_criteria ==
    /\ staged.staging_program_descriptions # << >>
    /\ staged' = [staged EXCEPT
           !.staging_selection_criteria =
               Concat([k \in 1..Len(staged.staging_program_descriptions) |->
                          CriteriaOf(staged.staging_program_descriptions[k])])]
    /\ UNCHANGED << raw, sections >>

site_keywords ==
    << << "h", "o", "s", "p", "i", "t", "a", "l" >>, << "m", "e", "d", "i",
          "c", "a", "l", " ", "c", "e", "n", "t", "e", "r" >>, << "h", "e",
          "a", "l", "t", "h", " ", "c", "e", "n", "t", "r", "e" >>, << "c",
          "l", "i", "n", "i", "c" >>,
       << "t", "r", "a", "i", "n", "i", "n", "g", " ", "s", "i", "t", "e" >>,
          << "r", "o", "t", "a", "t", "i", "o", "n", " ", "s", "i", "t",
          "e" >>, << "t", "e", "a", "c", "h", "i", "n", "g", " ", "h", "o",
          "s", "p", "i", "t", "a", "l" >> >>

SiteNameLimit == 200

SiteType(sentence_lower) ==
    IF Contains(<< "c", "l", "i", "n", "i", "c" >>,
                   sentence_lower) THEN "Clinic"
    ELSE IF Contains(<< "c", "o", "m", "m", "u", "n", "i", "t", "y" >>,
                        sentence_lower) THEN "Community"
    ELSE IF \/ Contains(<< "a", "c", "a", "d", "e", "m", "i", "c" >>,
                           sentence_lower)
            \/ Contains(<< "t", "e", "a", "c", "h", "i", "n", "g" >>,
                           sentence_lower)
    THEN "Academic Medical Center"
    ELSE "Hospital"

\* The rows appended for the sentences from the k-th on.
RECURSIVE SiteRows(_, _, _)
SiteRows(carms_id, sentences, k) ==
    IF k > Len(sentences) THEN << >>
    ELSE LET sentence_lower == lower(sentences[k])
             rest == SiteRows(carms_id, sentences, k + 1)
         IN  IF \E n \in 1..Len(site_keywords) :
                    Contains(site_keywords[n], sentence_lower)
             THEN << [carms_id |-> carms_id,
                      site_name |-> Prefix(strip(sentences[k]), SiteNameLimit),
                      site_type |-> SiteType(sentence_lower)] >> \o rest
             ELSE rest

SitesOf(row) ==
    IF \/ Contains(<< "t", "r", "a", "i", "n", "i", "n", "g" >>,
                      lower(row.full_content))
       \/ Contains(<< "r", "o", "t", "a", "t", "i", "o", "n" >>,
                      lower(row.full_content))
       \/ Contains(<< "s", "i", "t", "e" >>, lower(row.full_content))
    THEN SiteRows(row.carms_id, split(row.full_content, "."), 1)
    ELSE << >>

\* df.drop_duplicates(subset=['carms_id', 'site_name']): the first row of
\* every (carms_id, site_name) pair is kept.
RECURSIVE DropDuplicateSites(_, _)
DropDuplicateSites(rows, k) ==
    IF k > Len(rows) THEN << >>
    ELSE IF \E j \in 1..(k - 1) :
                /\ rows[j].carms_id = rows[k].carms_id
                /\ rows[j].site_name = rows[k].site_name
    THEN DropDuplicateSites(rows, k + 1)
    ELSE << rows[k] >> \o DropDuplicateSites(rows, k + 1)

staging_training_sites ==
    /\ staged.staging_program_descriptions # << >>
    /\ staged' = [staged EXCEPT
           !.staging_training_sites =
               DropDuplicateSites(
                   Concat([k \in 1..Len(staged.staging_program_descriptions) |->
                              SitesOf(staged.staging_program_descriptions[k])]),
                   1)]
    /\ UNCHANGED << raw, sections >>

(***************************************************************************)
(* Part III.d  The text assets executing on one raw document.              *)
(***************************************************************************)

MaxParts == 3  \* lines, or phrases, a generated document is composed of

\* Lines a document with headings is made of.
DocumentLines ==
    {<< "#", " ", "A" >>, << "#", "#", "A", " " >>, << "#", " ", "B" >>,
        << "#" >>, << "x" >>, << " ", "y", " " >>, << >>}

\* Phrases a document with requirements, criteria and sites is made of.
DocumentPhrases ==
    {<< "V", "i", "s", "a", ":", " " >>, << "p", "r", "e", "r", "e", "q", "u",
        "i", "s", "i", "t", "e", "s", ":", "\n" >>, << "M", "U", "S", "T",
        " " >>, << "x" >>, << "\n", "\n" >>,
     << "s", "i", "t", "e", "." >>, << " ", "H", "o", "s", "p", "i", "t", "a",
        "l", "." >>, << " ", "G", "P", "A" >>, << " ", "G", "r", "a", "d", "e",
        "s" >>}

EligibilityDocument ==
    << "#", " ", "E", "l", "i", "g", "i", "b", "i", "l", "i", "t", "y", "\n",
       "M", "u", "s", "t", " ", "h", "o", "l", "d", " ", "a", "n", " ", "M",
       "D", "\n", "#", " ", "P", "r", "e", "r", "e", "q", "u", "i", "s", "i",
       "t", "e", "s", "\n", "N", "o", "n", "e" >>

\* A requirement whose text exceeds the limit, the marker word beyond it.
LongRequirementDocument ==
    << "V", "i", "s", "a", ":",
       " " >> \o [k \in 1..RequirementTextLimit |-> "x"] \o << " ", "m", "u",
       "s", "t" >>

Documents ==
    {join(lines, "\n") : lines \in Batches(DocumentLines, MaxParts)}
        \cup {Concat(phrases) : phrases \in Batches(DocumentPhrases, MaxParts)}
        \cup {EligibilityDocument, LongRequirementDocument}

RawDocuments ==
    {[raw_program_descriptions_json |->
          << [id |-> << "1", "5", "0", "3", "|", "2", "7", "4", "4", "7" >>,
                        page_content |-> d] >>,
      raw_discipline |-> << >>, raw_program_master |-> << >>] :
        d \in Documents}

InitText ==
    /\ DefinitionsInit
    /\ universities = << >>
    /\ specialties = << >>
    /\ programs = << >>
    /\ requirements = << >>
    /\ selection_criteria = << >>
    /\ training_sites = << >>
    /\ loads = 0
    /\ lastLoad = NoLoad
    /\ staged = NoStaged
    /\ pipelineRun = 0
    /\ pipelineStep = 0
    /\ pipelineFailed = {}
    /\ rowCounts = << >>
    /\ sessions = << >>
    /\ runStart = << >>
    /\ raw \in RawDocuments
    /\ sections = << >>

notStagingVars == << engineVars, tableVars, loads, lastLoad, pipelineRun,
                     pipelineStep, pipelineFailed, rowCounts, concurrentVars >>

NextText ==
    \/ staging_program_descriptions /\ UNCHANGED notStagingVars
    \/ staging_requirements /\ UNCHANGED notStagingVars
    \/ staging_selection_criteria /\ UNCHANGED notStagingVars
    \/ staging_training_sites /\ UNCHANGED notStagingVars

SpecText == InitText /\ [][NextText]_vars

(***************************************************************************)
(* Part III.e  The entity normalizers: staging_programs,                   *)
(* staging_universities and staging_specialties.  A text cell that may be  *)
(* missing (NaN, None) is << >> when missing and << text >> otherwise.     *)
(***************************************************************************)

\* str.upper()
upper(text) ==
    [i \in 1..Len(text) |->
        IF \E u \in DOMAIN LowerCase : LowerCase[u] = text[i]
        THEN CHOOSE u \in DOMAIN LowerCase : LowerCase[u] = text[i]
        ELSE text[i]]

\* str.split() without argument: the pieces between runs of whitespace.
RECURSIVE Words(_)
Words(text) ==
    LET t == strip(text)
        gaps == {i \in 1..Len(t) : t[i] \in Whitespace}
    IN  IF t = << >> THEN << >>
        ELSE IF gaps = {} THEN << t >>
        ELSE << SubSeq(t, 1, Min(gaps) - 1) >>
                 \o Words(SubSeq(t, Min(gaps), Len(t)))

\* ''.join([w[0] for w in words])
Initials(words) == [k \in 1..Len(words) |-> words[k][1]]

\* re.split(r'\s*-\s*', name)[0]: the text before the first hyphen and the
\* whitespace in front of it; the whole text when there is no hyphen.
BeforeHyphen(name) ==
    LET hyphens == {i \in 1..Len(name) : name[i] = "-"}
    IN  IF hyphens = {} THEN name
        ELSE LET h == Min(hyphens)
                 p == Min({q \in 1..h :
                              \A j \in q..(h - 1) : name[j] \in Whitespace})
             IN  SubSeq(name, 1, p - 1)

\* .fillna('')
fillna(cell) == IF cell = << >> THEN << >> ELSE cell[1]

\* .astype(str) of a text cell: a missing cell becomes the text 'nan'.
astype_str(cell) == IF cell = << >> THEN << "n", "a", "n" >> ELSE cell[1]

MinCodeLength == 3

SourceFile == "1503_program_master.xlsx"

\* One row of staging_df.
StagingProgram(r) ==
    LET program_code == strip(astype_str(r.program_stream_id))
        university_name == fillna(r.school_name)
    IN  [program_code |-> program_code,
         program_name |-> fillna(r.program_name),
         program_stream |-> fillna(r.program_stream_name),
         program_site |-> fillna(r.program_site),
         specialty_name |-> fillna(r.discipline_name),
         specialty_id_raw |-> r.discipline_id,
         university_name |-> university_name,
         university_id_raw |-> r.school_id,
         carms_year |-> CarmsYear,
         source_file |-> SourceFile,
         is_valid |-> ~(Len(program_code) < MinCodeLength)
                          /\ ~(university_name = << >>)]

staging_programs ==
    /\ raw.raw_program_master # << >>
    /\ staged' = [staged EXCEPT
           !.staging_programs =
               [k \in 1..Len(raw.raw_program_master) |->
                   StagingProgram(raw.raw_program_master[k])]]
    /\ UNCHANGED << raw, sections >>

\* province_map, in dict order.
province_map ==
    << << << "T", "o", "r", "o", "n", "t", "o" >>, "Ontario" >>, << << "M",
             "c", "G", "i", "l", "l" >>, "Quebec" >>,
       << << "M", "o", "n", "t", "r", "e", "a", "l" >>, "Quebec" >>, << << "U",
             "B", "C" >>, "British Columbia" >>,
       << << "V", "a", "n", "c", "o", "u", "v", "e", "r" >>,
             "British Columbia" >>, << << "A", "l", "b", "e", "r", "t", "a" >>,
             "Alberta" >>,
       << << "C", "a", "l", "g", "a", "r", "y" >>, "Alberta" >>, << << "E",
             "d", "m", "o", "n", "t", "o", "n" >>, "Alberta" >>,
       << << "M", "a", "n", "i", "t", "o", "b", "a" >>, "Manitoba" >>,
             << << "W", "i", "n", "n", "i", "p", "e", "g" >>, "Manitoba" >>,
       << << "S", "a", "s", "k", "a", "t", "c", "h", "e", "w", "a", "n" >>,
             "Saskatchewan" >>,
       << << "S", "a", "s", "k", "a", "t", "o", "o", "n" >>, "Saskatchewan" >>,
             << << "R", "e", "g", "i", "n", "a" >>, "Saskatchewan" >>,
       << << "D", "a", "l", "h", "o", "u", "s", "i", "e" >>, "Nova Scotia" >>,
             << << "H", "a", "l", "i", "f", "a", "x" >>, "Nova Scotia" >>,
       << << "M", "e", "m", "o", "r", "i", "a", "l" >>,
             "Newfoundland and Labrador" >>,
       << << "N", "e", "w", "f", "o", "u", "n", "d", "l", "a", "n", "d" >>,
             "Newfoundland and Labrador" >>,
       << << "O", "t", "t", "a", "w", "a" >>, "Ontario" >>, << << "Q", "u",
             "e", "e", "n" >>, "Ontario" >>,
       << << "K", "i", "n", "g", "s", "t", "o", "n" >>, "Ontario" >>,
             << << "M", "c", "M", "a", "s", "t", "e", "r" >>, "Ontario" >>,
       << << "H", "a", "m", "i", "l", "t", "o", "n" >>, "Ontario" >>,
             << << "W", "e", "s", "t", "e", "r", "n" >>, "Ontario" >>,
       << << "L", "o", "n", "d", "o", "n" >>, "Ontario" >>, << << "L", "a",
             "v", "a", "l" >>, "Quebec" >>,
       << << "S", "h", "e", "r", "b", "r", "o", "o", "k", "e" >>,
             "Quebec" >> >>

extract_province(name) ==
    LET hits == {k \in 1..Len(province_map) :
                    Contains(lower(province_map[k][1]), lower(name))}
    IN  IF hits = {} THEN NULL ELSE province_map[Min(hits)][2]

UniversityCodeLength == 4

generate_code(name) ==
    LET words == Words(name)
    IN  IF Len(words) > 0
        THEN IF Len(words) >= 2
             THEN upper(Prefix(Initials(words), UniversityCodeLength))
             ELSE upper(Prefix(name, UniversityCodeLength))
        ELSE << "U", "N", "K" >>

francophone_keywords ==
    << << "l", "a", "v", "a", "l" >>, << "m", "o", "n", "t", "r", "e", "a",
          "l" >>, << "s", "h", "e", "r", "b", "r", "o", "o", "k", "e" >>,
          << "m", "c", "g", "i", "l", "l" >> >>

\* staging_programs[['university_name', 'university_id_raw']]
\*     .drop_duplicates(): the first row of every (name, raw id) pair.
RECURSIVE DropDuplicateUniversities(_, _)
DropDuplicateUniversities(rows, k) ==
    IF k > Len(rows) THEN << >>
    ELSE IF \E j \in 1..(k - 1) :
                /\ rows[j].university_name = rows[k].university_name
                /\ rows[j].university_id_raw = rows[k].university_id_raw
    THEN DropDuplicateUniversities(rows, k + 1)
    ELSE << [university_name |-> rows[k].university_name,
             university_id_raw |-> rows[k].university_id_raw] >>
             \o DropDuplicateUniversities(rows, k + 1)

StagingUniversity(u) ==
    [university_name |-> u.university_name,
     university_id_raw |-> u.university_id_raw,
     province |-> extract_province(u.university_name),
     code |-> generate_code(u.university_name),
     is_francophone |->
         \E k \in 1..Len(francophone_keywords) :
             Contains(francophone_keywords[k], lower(u.university_name))]

staging_universities ==
    /\ staged.staging_programs # << >>
    /\ staged' = [staged EXCEPT
           !.staging_universities =
               LET unique == DropDuplicateUniversities(staged.staging_programs,
                                                       1)
               IN  [k \in 1..Len(unique) |-> StagingUniversity(unique[k])]]
    /\ UNCHANGED << raw, sections >>

SpecialtyCodeLength == 3

generate_specialty_code(name) ==
    LET clean_name == BeforeHyphen(name)
        words == Words(clean_name)
    IN  IF Len(words) > 1
        THEN upper(Prefix(Initials(words), SpecialtyCodeLength))
        ELSE upper(Prefix(clean_name, SpecialtyCodeLength))

surgical_keywords == << << "s", "u", "r", "g", "e", "r", "y" >>, << "s", "u",
                           "r", "g", "i", "c", "a", "l" >> >>

medical_keywords == << << "m", "e", "d", "i", "c", "i", "n", "e" >>, << "m",
                          "e", "d", "i", "c", "a", "l" >> >>

primary_care_keywords ==
    << << "f", "a", "m", "i", "l", "y", " ", "m", "e", "d", "i", "c", "i", "n",
          "e" >>, << "f", "a", "m", "i", "l", "y" >>, << "g", "e", "n", "e",
          "r", "a", "l", " ", "p", "r", "a", "c", "t", "i", "c", "e" >> >>

AnyIn(keywords, text) ==
    \E k \in 1..Len(keywords) : Contains(keywords[k], text)

\* A categorizer that tests the medical keywords before the primary care ones.
categorize_specialty_MedicalFirst(name) ==
    LET name_lower == lower(name)
    IN  IF AnyIn(medical_keywords, name_lower) THEN "Medical"
        ELSE IF AnyIn(primary_care_keywords, name_lower) THEN "Primary Care"
        ELSE IF AnyIn(surgical_keywords, name_lower) THEN "Surgical"
        ELSE IF Contains(<< "p", "s", "y", "c", "h", "i", "a", "t", "r",
                            "y" >>, name_lower) THEN "Psychiatry"
        ELSE IF AnyIn(<< << "p", "e", "d", "i", "a", "t", "r", "i", "c" >>,
                            << "p", "a", "e", "d", "i", "a", "t", "r", "i",
                            "c" >> >>, name_lower)
        THEN "Pediatrics"
        ELSE IF AnyIn(<< << "o", "b", "s", "t", "e", "t", "r", "i", "c" >>,
                            << "g", "y", "n", "e", "c", "o", "l" >> >>,
                            name_lower)
        THEN "Obstetrics & Gynecology"
        ELSE IF AnyIn(<< << "d", "i", "a", "g", "n", "o", "s", "t", "i",
                            "c" >>, << "r", "a", "d", "i", "o", "l", "o", "g",
                            "y" >> >>, name_lower)
        THEN "Diagnostic"
        ELSE IF Contains(<< "p", "a", "t", "h", "o", "l", "o", "g", "y" >>,
                            name_lower) THEN "Laboratory"
        ELSE "Other"


categorize_specialty(name) ==
    LET name_lower == lower(name)
    IN  IF AnyIn(primary_care_keywords, name_lower) THEN "Primary Care"
        ELSE IF AnyIn(surgical_keywords, name_lower) THEN "Surgical"
        ELSE IF AnyIn(medical_keywords, name_lower) THEN "Medical"
        ELSE IF Contains(<< "p", "s", "y", "c", "h", "i", "a", "t", "r",
                            "y" >>, name_lower) THEN "Psychiatry"
        ELSE IF AnyIn(<< << "p", "e", "d", "i", "a", "t", "r", "i", "c" >>,
                            << "p", "a", "e", "d", "i", "a", "t", "r", "i",
                            "c" >> >>, name_lower)
        THEN "Pediatrics"
        ELSE IF AnyIn(<< << "o", "b", "s", "t", "e", "t", "r", "i", "c" >>,
                            << "g", "y", "n", "e", "c", "o", "l" >> >>,
                            name_lower)
        THEN "Obstetrics & Gynecology"
        ELSE IF AnyIn(<< << "d", "i", "a", "g", "n", "o", "s", "t", "i",
                            "c" >>, << "r", "a", "d", "i", "o", "l", "o", "g",
                            "y" >> >>, name_lower)
        THEN "Diagnostic"
        ELSE IF Contains(<< "p", "a", "t", "h", "o", "l", "o", "g", "y" >>,
                            name_lower) THEN "Laboratory"
        ELSE "Other"

StagingSpecialty(r) ==
    LET category == categorize_specialty(r.discipline)
    IN  [specialty_id_raw |-> r.discipline_id,
         specialty_name |-> r.discipline,
         code |-> generate_specialty_code(r.discipline),
         category |-> category,
         is_subspecialty |-> Contains(<< " ", "-", " " >>, r.discipline),
         parent_specialty_name |->
             IF Contains(<< " ", "-", " " >>, r.discipline)
             THEN << BeforeHyphen(r.discipline) >> ELSE << >>,
         is_primary_care |-> category = "Primary Care"]

staging_specialties ==
    /\ raw.raw_discipline # << >>
    /\ staged' = [staged EXCEPT
           !.staging_specialties =
               [k \in 1..Len(raw.raw_discipline) |->
                   StagingSpecialty(raw.raw_discipline[k])]]
    /\ UNCHANGED << raw, sections >>

\* -- the raw tables ---------------------------------------------------------

MaxRows == 2  \* rows of a raw program master table

\* Pieces a discipline name is made of.
NameParts ==
    {<< "F", "a", "m", "i", "l", "y" >>, << "M", "e", "d", "i", "c", "i", "n",
        "e" >>, << "S", "u", "r", "g", "e", "r", "y" >>, << "G", "e", "n", "e",
        "r", "a", "l", " " >>, << " ", "-", " " >>,
     << "C", "a", "r", "d", "i", "a", "c" >>, << "X", "-", "R", "a", "y" >>,
        << "P", "E", "D", "I", "A", "T", "R", "I", "C", " " >>, << " " >>,
        << "P", "s", "y", "c", "h", "i", "a", "t", "r", "y" >>,
     << "O", "b", "s", "t", "e", "t", "r", "i", "c", "s" >>, << "R", "a", "d",
        "i", "o", "l", "o", "g", "y" >>, << "P", "a", "t", "h", "o", "l", "o",
        "g", "y" >>}

DisciplineNames == {Concat(parts) : parts \in Batches(NameParts, MaxParts)}

RawDisciplines ==
    {[raw_program_descriptions_json |-> << >>,
      raw_discipline |-> << [discipline_id |-> 1, discipline |-> n] >>,
      raw_program_master |-> << >>] : n \in DisciplineNames}

ProgramMasterRows ==
    {[discipline_id |-> 1, discipline_name |-> named[1],
      school_id |-> school_id, school_name |-> school_name,
      program_stream_id |-> program_stream_id,
      program_stream_name |-> << << "C", "M", "G" >> >>,
                                    program_site |-> << >>,
      program_name |-> named[2]] :
        named \in {<< << << "S", "u", "r", "g", "e", "r", "y" >> >>, << << "R",
                            "e", "s", "i", "d", "e", "n", "c", "y" >> >> >>,
                   << << >>, << >> >>},
        school_id \in {100, 101},
        school_name \in {<< << "U", "n", "i", "v", "e", "r", "s", "i", "t",
                               "y", " ", "o", "f", " ", "T", "o", "r", "o",
                               "n", "t", "o" >> >>,
                         << << "M", "c", "G", "i", "l", "l", " ", "U", "n",
                               "i", "v", "e", "r", "s", "i", "t", "y" >> >>,
                               << << >> >>, << >>},
        program_stream_id \in {<< << "2", "7", "4", "4", "7" >> >>, << << " ",
                                     "1", "2", " " >> >>, << >>}}

RawProgramMasters ==
    {[raw_program_descriptions_json |-> << >>, raw_discipline |-> << >>,
      raw_program_master |-> rows] :
        rows \in Batches(ProgramMasterRows, MaxRows)}

InitEntities ==
    /\ DefinitionsInit
    /\ universities = << >>
    /\ specialties = << >>
    /\ programs = << >>
    /\ requirements = << >>
    /\ selection_criteria = << >>
    /\ training_sites = << >>
    /\ loads = 0
    /\ lastLoad = NoLoad
    /\ staged = NoStaged
    /\ pipelineRun = 0
    /\ pipelineStep = 0
    /\ pipelineFailed = {}
    /\ rowCounts = << >>
    /\ sessions = << >>
    /\ runStart = << >>
    /\ raw \in RawDisciplines \cup RawProgramMasters
    /\ sections = << >>

NextEntities ==
    \/ staging_programs /\ UNCHANGED notStagingVars
    \/ staging_universities /\ UNCHANGED notStagingVars
    \/ staging_specialties /\ UNCHANGED notStagingVars

SpecEntities == InitEntities /\ [][NextEntities]_vars


(***************************************************************************)
(* Part III.f  The specialty hierarchy: the frame staging_specialties      *)
(* makes of a discipline table, handed to dim_specialties.  The warehouse  *)
(* names a discipline by a short name; DisciplineText gives its text.      *)
(***************************************************************************)

HierarchyNames ==
    {"Surgery", "Surgery - Cardiac", "X-Ray", "X-Ray - Chest", "X"}

DisciplineText(name) ==
    CASE name = "Surgery" -> << "S", "u", "r", "g", "e", "r", "y" >>
      [] name = "Surgery - Cardiac" -> << "S", "u", "r", "g", "e", "r", "y",
                                          " ", "-", " ", "C", "a", "r", "d",
                                          "i", "a", "c" >>
      [] name = "X-Ray" -> << "X", "-", "R", "a", "y" >>
      [] name = "X-Ray - Chest" -> << "X", "-", "R", "a", "y", " ", "-", " ",
                                      "C", "h", "e", "s", "t" >>
      [] name = "X" -> << "X" >>

\* The name of the discipline with the given text.
DisciplineNamed(text) ==
    CHOOSE name \in HierarchyNames : DisciplineText(name) = text

\* The row staging_specialties makes of the discipline.
HierarchyRow(name) ==
    LET r == StagingSpecialty([discipline_id |-> 1,
                               discipline |-> DisciplineText(name)])
    IN  [specialty_name |-> name, code |-> r.code, category |-> r.category,
         is_primary_care |-> r.is_primary_care,
         is_subspecialty |-> r.is_subspecialty,
         parent_specialty_name |->
             IF r.parent_specialty_name = << >> THEN NULL
             ELSE DisciplineNamed(r.parent_specialty_name[1])]

HierarchyRows == {HierarchyRow(name) : name \in HierarchyNames}

\* dim_specialties loads, completed or failed in the second pass, in any
\* number, each on the staged frame of some discipline table.
NextHierarchy ==
    \/ /\ loads < MaxLoads
       /\ \E batch \in Batches(HierarchyRows, MaxBatch) :
              dim_specialties(batch)
       /\ UNCHANGED notLoadVars
    \/ /\ loads < MaxLoads
       /\ \E batch \in Batches(HierarchyRows, MaxBatch) :
              dim_specialties_raises_in_second_pass(batch)
       /\ UNCHANGED notLoadVars

SpecHierarchy == Init /\ [][NextHierarchy]_vars
\* check_programs_referential_integrity: the two orphan counts and the verdict.
check_programs_referential_integrity ==
    LET orphaned_university ==
            Cardinality({k \in 1..Len(programs) :
                           programs[k].university_id \notin
                               {universities[i].id : i \in 1..Len(universities)}})
        orphaned_specialty ==
            Cardinality({k \in 1..Len(programs) :
                           programs[k].specialty_id \notin
                               {specialties[i].id : i \in 1..Len(specialties)}})
    IN  orphaned_university + orphaned_specialty = 0


(***************************************************************************)
(* Part II.e  Properties of the warehouse loaders.                         *)
(***************************************************************************)

\* C9: when the full pipeline has run twice in succession on the same
\* staged input, no loader failing in either run, each of the six tables
\* holds as many rows after the second run as after the first.
C9_SameRowCounts ==
    (/\ Len(rowCounts) = 2
     /\ rowCounts[1].failed = {}
     /\ rowCounts[2].failed = {})
        => rowCounts[2].counts = rowCounts[1].counts

UniqueNames(table) ==
    \A i, j \in 1..Len(table) : table[i].name = table[j].name => i = j

NamesOf(table) == {table[i].name : i \in 1..Len(table)}

\* The values a dimension load leaves for name n: those of the last batch
\* row carrying the name.
LastUniversityRow(batch, n) ==
    batch[Max({i \in 1..Len(batch) : batch[i].university_name = n})]

LastSpecialtyRow(batch, n) ==
    batch[Max({i \in 1..Len(batch) : batch[i].specialty_name = n})]

\* Rows present before the load stay where they are, under their id and name.
KeptInPlace(old, new) ==
    /\ Len(old) <= Len(new)
    /\ \A i \in 1..Len(old) : new[i].id = old[i].id /\ new[i].name = old[i].name

UniversitiesUpserted ==
    LET batch == lastLoad'.batch
        loaded == {batch[i].university_name : i \in 1..Len(batch)}
    IN  /\ KeptInPlace(universities, universities')
        /\ NamesOf(universities') = NamesOf(universities) \cup loaded
        /\ Len(universities') =
               Len(universities)
                   + Cardinality(loaded \ NamesOf(universities))
        /\ \A i \in 1..Len(universities') :
               LET row == universities'[i]
               IN  IF row.name \in loaded
                   THEN LET last == LastUniversityRow(batch, row.name)
                        IN  /\ row.code = last.code
                            /\ row.province = last.province
                            /\ row.is_francophone = last.is_francophone
                   ELSE row = universities[i]

SpecialtiesUpserted ==
    LET batch == lastLoad'.batch
        loaded == {batch[i].specialty_name : i \in 1..Len(batch)}
    IN  /\ KeptInPlace(specialties, specialties')
        /\ NamesOf(specialties') = NamesOf(specialties) \cup loaded
        /\ Len(specialties') =
               Len(specialties) + Cardinality(loaded \ NamesOf(specialties))
        /\ \A i \in 1..Len(specialties') :
               LET row == specialties'[i]
               IN  IF row.name \in loaded
                   THEN LET last == LastSpecialtyRow(batch, row.name)
                        IN  /\ row.code = last.code
                            /\ row.category = last.category
                            /\ row.is_primary_care = last.is_primary_care
                   ELSE row = specialties[i]

\* C10: after any sequence of dimension loads no two rows of a dimension
\* table share a name; a load leaves the rows that were there in place, adds
\* one row per name that was not there, and every name of its batch ends
\* with the values of the last batch row carrying it, also when the name
\* occurs more than once in the batch.
C10_DimensionUpsert ==
    /\ [](UniqueNames(universities) /\ UniqueNames(specialties))
    /\ [][(loads' = loads + 1 /\ lastLoad'.asset = "dim_universities")
              => UniversitiesUpserted]_vars
    /\ [][(loads' = loads + 1 /\ lastLoad'.asset = "dim_specialties")
              => SpecialtiesUpserted]_vars

\* A university that was already stored is loaded twice in one batch with
\* different provinces and ends as the one row, with the second province.
C10_Witness ==
    /\ lastLoad.asset = "dim_universities"
    /\ Len(lastLoad.batch) = 2
    /\ lastLoad.batch[1].university_name = lastLoad.batch[2].university_name
    /\ lastLoad.batch[1].province # lastLoad.batch[2].province
    /\ lastLoad.updated = 2
    /\ Len(universities) = 1
    /\ universities[1].name = lastLoad.batch[2].university_name
    /\ universities[1].province = lastLoad.batch[2].province

LoadStep(asset) ==
    /\ loads' = loads + 1
    /\ lastLoad'.asset = asset
    /\ lastLoad'.status = "ok"

\* The rows of staging_programs that fact_programs treats as candidates.
Candidates(batch) == {i \in 1..Len(batch) : batch[i].is_valid}

\* Candidates naming a university or a specialty that has no persisted row.
Unresolved(batch) ==
    {i \in Candidates(batch) :
        \/ batch[i].university_name \notin NamesOf(universities)
        \/ batch[i].specialty_name \notin NamesOf(specialties)}

CodesOf(table) == {table[i].program_code : i \in 1..Len(table)}

\* C11: a fact_programs load counts one skip for every valid candidate whose
\* university or specialty name has no persisted dimension row; such a
\* candidate adds no program row and changes none, while every other
\* candidate of the load is stored: the codes in the table afterwards are
\* those already there and those of the resolved candidates, and a row whose
\* code no resolved candidate carries is left as it was.
C11_UnresolvedCandidateSkipped ==
    [][LoadStep("fact_programs") =>
          LET batch == lastLoad'.batch[1]
              resolved == {batch[i].program_code :
                              i \in Candidates(batch) \ Unresolved(batch)}
          IN  /\ lastLoad'.skipped = Cardinality(Unresolved(batch))
              /\ Len(programs) <= Len(programs')
              /\ CodesOf(programs') = CodesOf(programs) \cup resolved
              /\ Len(programs') =
                     Len(programs) + Cardinality(resolved \ CodesOf(programs))
              /\ \A k \in 1..Len(programs) :
                     programs'[k].program_code \notin resolved
                         => programs'[k] = programs[k]]_vars

\* A load of two valid candidates: the first names a university that has no
\* row and is skipped, the second is inserted.
C11_Witness ==
    /\ lastLoad.asset = "fact_programs"
    /\ lastLoad.status = "ok"
    /\ Len(lastLoad.batch[1]) = 2
    /\ \A i \in 1..2 : lastLoad.batch[1][i].is_valid
    /\ lastLoad.batch[1][1].university_name \notin NamesOf(universities)
    /\ lastLoad.batch[1][2].program_code \in CodesOf(programs)
    /\ lastLoad.skipped = 1
    /\ lastLoad.inserted = 1
    /\ Len(programs) = 1

\* C12: in every state of the warehouse every program row's university_id is
\* the id of a stored university row and its specialty_id the id of a stored
\* specialty row, and check_programs_referential_integrity passes.
C12_NoDanglingReference ==
    /\ \A k \in 1..Len(programs) :
           /\ \E i \in 1..Len(universities) :
                  universities[i].id = programs[k].university_id
           /\ \E i \in 1..Len(specialties) :
                  specialties[i].id = programs[k].specialty_id
    /\ check_programs_referential_integrity

\* A load has inserted a program, and a program of the second of two stored
\* universities is in the table.
C12_Witness ==
    /\ lastLoad.asset = "fact_programs"
    /\ lastLoad.status = "ok"
    /\ lastLoad.inserted >= 1
    /\ \E k \in 1..Len(programs) :
           programs[k].university_id = 2 /\ programs[k].specialty_id = 1
    /\ Len(universities) = 2
    /\ Len(specialties) = 1

\* C13: a loader call that fails leaves all six tables as they were before
\* the call: none of its writes is kept.
C13_FailedLoadWritesNothing ==
    [][(loads' = loads + 1 /\ lastLoad'.status = "failed")
          => UNCHANGED tableVars]_vars

\* code in carms_id or carms_id in code, character for character.
Qualifies(program, carms_id) ==
    \/ \E k \in 0..(Len(carms_id) - Len(program.program_code)) :
           \A n \in 1..Len(program.program_code) :
               carms_id[k + n] = program.program_code[n]
    \/ \E k \in 0..(Len(program.program_code) - Len(carms_id)) :
           \A n \in 1..Len(carms_id) :
               program.program_code[k + n] = carms_id[n]

\* pid is the id of the first program in scan order that qualifies.
FirstQualifying(pid, carms_id, scan) ==
    \E j \in 1..Len(scan) :
        /\ Qualifies(programs[scan[j]], carms_id)
        /\ programs[scan[j]].id = pid
        /\ \A h \in 1..(j - 1) : ~Qualifies(programs[scan[h]], carms_id)

\* The rows `new` a child loader builds are, in batch order, one per batch
\* row some program qualifies for, each linked to the first such program.
LinkedInScanOrder(new, batch, scan) ==
    LET linked == SelectSeq([i \in 1..Len(batch) |-> i],
                            LAMBDA i : \E j \in 1..Len(scan) :
                                Qualifies(programs[scan[j]], batch[i].carms_id))
    IN  /\ Len(new) = Len(linked)
        /\ \A k \in 1..Len(new) :
               FirstQualifying(new[k].program_id, batch[linked[k]].carms_id,
                               scan)

ChildCall(asset) == loads' = loads + 1 /\ lastLoad'.asset = asset

\* C14: in each child loader every child is linked to the first program, in
\* the one scan order of the call, whose code occurs in the child's
\* identifier or contains it, compared character for character; the rows
\* dim_training_sites stores carry exactly these links.
C14_FirstMatchInScanOrder ==
    /\ [][ChildCall("dim_requirements") =>
              LinkedInScanOrder(
                  NewRequirements(requirements, lastLoad'.batch[1], programs,
                                  lastLoad'.batch[2]),
                  lastLoad'.batch[1], lastLoad'.batch[2])]_vars
    /\ [][ChildCall("dim_selection_criteria") =>
              LinkedInScanOrder(
                  NewSelectionCriteria(selection_criteria, lastLoad'.batch[1],
                                       programs, lastLoad'.batch[2]),
                  lastLoad'.batch[1], lastLoad'.batch[2])]_vars
    /\ [][ChildCall("dim_training_sites") /\ lastLoad'.status = "ok" =>
              /\ Len(training_sites) <= Len(training_sites')
              /\ SubSeq(training_sites', 1, Len(training_sites))
                     = training_sites
              /\ LinkedInScanOrder(
                     SubSeq(training_sites', Len(training_sites) + 1,
                            Len(training_sites')),
                     lastLoad'.batch[1], lastLoad'.batch[2])]_vars

\* Programs "274" and "27447" are stored and scanned in that order; both
\* training sites of the batch carry the identifier "27447" and both are
\* stored under the program "274".
C14_Witness ==
    /\ lastLoad.asset = "dim_training_sites"
    /\ lastLoad.status = "ok"
    /\ Len(programs) = 2
    /\ programs[lastLoad.batch[2][1]].program_code = << "2", "7", "4" >>
    /\ programs[lastLoad.batch[2][2]].program_code
           = << "2", "7", "4", "4", "7" >>
    /\ Len(lastLoad.batch[1]) = 2
    /\ lastLoad.batch[1][1].carms_id = << "2", "7", "4", "4", "7" >>
    /\ lastLoad.batch[1][2].carms_id = << "2", "7", "4", "4", "7" >>
    /\ Len(training_sites) = 2
    /\ \A k \in 1..2 :
           training_sites[k].program_id = programs[lastLoad.batch[2][1]].id

\* The children of a batch that no stored program qualifies for.
Unmatched(batch) ==
    {i \in 1..Len(batch) :
        \A k \in 1..Len(programs) : ~Qualifies(programs[k], batch[i].carms_id)}

\* The table gains one row per matched child and none for an unmatched
\* one, and the call reports the number of unmatched children.
DroppedAndCounted(old, new) ==
    LET batch == lastLoad'.batch[1]
    IN  /\ Len(new) = Len(old) + (Len(batch) - Cardinality(Unmatched(batch)))
        /\ "skipped" \in lastLoad'.metadata
        /\ lastLoad'.skipped = Cardinality(Unmatched(batch))

\* C15: a child loader call that succeeds stores no row for a child that
\* matches no program, stores the matched children of the same batch, and
\* reports the number of unmatched children in its result.
C15_UnmatchedDroppedAndCounted ==
    /\ [][LoadStep("dim_requirements")
              => DroppedAndCounted(requirements, requirements')]_vars
    /\ [][LoadStep("dim_selection_criteria")
              => DroppedAndCounted(selection_criteria,
                                   selection_criteria')]_vars
    /\ [][LoadStep("dim_training_sites")
              => DroppedAndCounted(training_sites, training_sites')]_vars

ReferencesOneProgram(row) ==
    Cardinality({k \in 1..Len(programs) : programs[k].id = row.program_id}) = 1

\* A child loader call adds exactly one row per child of its batch that
\* some program qualifies for, each referencing one stored program.
StoredOncePerLinkedChild(old, new) ==
    LET batch == lastLoad'.batch[1]
    IN  /\ Len(new) = Len(old) + (Len(batch) - Cardinality(Unmatched(batch)))
        /\ \A k \in (Len(old) + 1)..Len(new) : ReferencesOneProgram(new[k])

\* C16: every child whose identifier links to a program is stored by its
\* loader as one row referencing that one program, and every stored
\* requirement, selection criterion and training site references one
\* stored program.
C16_LinkedChildStoredOnce ==
    /\ [](/\ \A k \in 1..Len(requirements) :
               ReferencesOneProgram(requirements[k])
          /\ \A k \in 1..Len(selection_criteria) :
               ReferencesOneProgram(selection_criteria[k])
          /\ \A k \in 1..Len(training_sites) :
               ReferencesOneProgram(training_sites[k]))
    /\ [][ChildCall("dim_requirements")
              => StoredOncePerLinkedChild(requirements, requirements')]_vars
    /\ [][ChildCall("dim_selection_criteria")
              => StoredOncePerLinkedChild(selection_criteria,
                                          selection_criteria')]_vars
    /\ [][ChildCall("dim_training_sites")
              => StoredOncePerLinkedChild(training_sites,
                                          training_sites')]_vars

\* The counts of a call partition its `candidates` rows, `added` of which
\* are new rows of the table.
CountsPartition(candidates, added) ==
    /\ lastLoad'.inserted + lastLoad'.updated + lastLoad'.skipped = candidates
    /\ lastLoad'.inserted = added
    /\ lastLoad'.total = lastLoad'.inserted + lastLoad'.updated

\* C17: the counts a successful loader call returns partition the rows it
\* processed: inserted + updated + skipped is the number of candidate rows
\* (for fact_programs the valid rows), inserted is the number of rows the
\* call added to its table, and total is inserted + updated.
C17_CountsPartitionCandidates ==
    /\ [][LoadStep("dim_universities") =>
              CountsPartition(Len(lastLoad'.batch),
                              Len(universities') - Len(universities))]_vars
    /\ [][LoadStep("dim_specialties") =>
              CountsPartition(Len(lastLoad'.batch),
                              Len(specialties') - Len(specialties))]_vars
    /\ [][LoadStep("fact_programs") =>
              CountsPartition(Cardinality(Candidates(lastLoad'.batch[1])),
                              Len(programs') - Len(programs))]_vars
    /\ [][LoadStep("dim_requirements") =>
              CountsPartition(Len(lastLoad'.batch[1]),
                              Len(requirements') - Len(requirements))]_vars
    /\ [][LoadStep("dim_selection_criteria") =>
              CountsPartition(Len(lastLoad'.batch[1]),
                              Len(selection_criteria')
                                  - Len(selection_criteria))]_vars
    /\ [][LoadStep("dim_training_sites") =>
              CountsPartition(Len(lastLoad'.batch[1]),
                              Len(training_sites') - Len(training_sites))]_vars

\* The tables after one loader has run whole, alone, on the tables t.
SerialLoad(asset, t, scan) ==
    CASE asset = "dim_universities" ->
             [t EXCEPT !.universities =
                 UpsertUniversities([table |-> t.universities,
                                     inserted |-> 0, updated |-> 0],
                                    staged.staging_universities, 1).table]
      [] asset = "dim_specialties" ->
             LET first == UpsertSpecialties([table |-> t.specialties,
                                             map |-> << >>,
                                             inserted |-> 0, updated |-> 0],
                                            staged.staging_specialties, 1)
             IN  [t EXCEPT !.specialties =
                     LinkParentSpecialties(first.table, first.map,
                                           staged.staging_specialties, 1)]
      [] asset = "dim_requirements" ->
             LET rows == NewRequirements(t.requirements,
                                         staged.staging_requirements,
                                         t.programs, scan)
             IN  IF \A k \in 1..Len(rows) : RequirementNotNull(rows[k])
                 THEN [t EXCEPT !.requirements = @ \o rows]
                 ELSE t
      [] asset = "dim_selection_criteria" ->
             LET rows == NewSelectionCriteria(t.selection_criteria,
                                              staged.staging_selection_criteria,
                                              t.programs, scan)
             IN  IF \A k \in 1..Len(rows) : SelectionCriteriaNotNull(rows[k])
                 THEN [t EXCEPT !.selection_criteria = @ \o rows]
                 ELSE t
      [] asset = "dim_training_sites" ->
             LET rows == NewTrainingSites(t.training_sites,
                                          staged.staging_training_sites,
                                          t.programs, scan)
             IN  IF \A k \in 1..Len(rows) : TrainingSiteNotNull(rows[k])
                 THEN [t EXCEPT !.training_sites = @ \o rows]
                 ELSE t

RECURSIVE ApplySerial(_, _, _)
ApplySerial(serial, t, i) ==
    IF i > Len(serial) THEN t
    ELSE ApplySerial(serial,
                     SerialLoad(serial[i], t, sessions[serial[i]].scan), i + 1)

\* The orders in which some of the assets of a group can run one at a time.
SerialOrders(group) ==
    UNION {{s \in [1..n -> group] : \A i, j \in 1..n : s[i] = s[j] => i = j} :
              n \in 0..Cardinality(group)}

FinishedSessions == {a \in DOMAIN sessions : sessions[a].pc \in {"done", "failed"}}

StartedSessions == {a \in DOMAIN sessions : sessions[a].pc # "idle"}

\* C18: while loaders without a dependency between them run at the same time,
\* every loader's writes become visible together: the six tables are always
\* what running some of the started loaders one after another, each whole,
\* makes of the tables the run began with, and once every loader has finished
\* they are what a serial execution of all of them makes.
C18_ConcurrentEqualsSerial ==
    \E serial \in SerialOrders(StartedSessions) :
        /\ FinishedSessions \subseteq Range(serial)
        /\ Tables = ApplySerial(serial, runStart, 1)

\* Every row of `old` is a row of `new` with the same id, the same name and
\* the same soft-delete flag, and `new` has no fewer rows.
RowsKept(old, new) ==
    /\ Len(new) >= Len(old)
    /\ \A k \in 1..Len(old) :
           \E j \in 1..Len(new) :
               /\ new[j].id = old[k].id
               /\ new[j].name = old[k].name
               /\ new[j].is_deleted = old[k].is_deleted

\* C19: no step of a loader, successful or failed, removes a university or a
\* specialty row: every row stored before the step is stored after it with
\* the same id and name, the two row counts never decrease, and the
\* soft-delete flag of a stored row is left as it was.
C19_DimensionRowsKept ==
    [][/\ RowsKept(universities, universities')
       /\ RowsKept(specialties, specialties')]_vars

\* A dim_specialties call has updated a specialty that was soft-deleted
\* before the call; the row is still stored and still flagged.
C19_Witness ==
    /\ lastLoad.asset = "dim_specialties"
    /\ lastLoad.status = "ok"
    /\ lastLoad.updated >= 1
    /\ \E k \in 1..Len(specialties), j \in 1..Len(lastLoad.batch) :
           /\ specialties[k].is_deleted
           /\ specialties[k].name = lastLoad.batch[j].specialty_name

UniqueCodes(table) ==
    \A i, j \in 1..Len(table) :
        table[i].program_code = table[j].program_code => i = j

\* The program codes of the candidates of a batch that fact_programs resolves.
ResolvedCodes(batch) ==
    {batch[i].program_code : i \in Candidates(batch) \ Unresolved(batch)}

\* C20: no two program rows ever share a program code, and a fact_programs
\* load adds exactly one row for every code among its resolved candidates
\* that was not stored before, however often the code occurs in the batch,
\* while a code that was stored stays on the row (same id) that held it.
C20_ProgramCodesUnique ==
    /\ [] UniqueCodes(programs)
    /\ [][LoadStep("fact_programs") =>
              /\ Len(programs') - Len(programs) =
                     Cardinality(ResolvedCodes(lastLoad'.batch[1])
                                     \ CodesOf(programs))
              /\ \A k \in 1..Len(programs) :
                     /\ programs'[k].id = programs[k].id
                     /\ programs'[k].program_code = programs[k].program_code]_vars

\* A fact_programs call whose batch holds one code twice, both candidates
\* resolved: the first was inserted and the second updated that row.
C20_Witness ==
    /\ lastLoad.asset = "fact_programs"
    /\ lastLoad.status = "ok"
    /\ Len(lastLoad.batch[1]) = 2
    /\ lastLoad.batch[1][1].program_code = lastLoad.batch[1][2].program_code
    /\ lastLoad.inserted = 1
    /\ lastLoad.updated = 1
    /\ Cardinality({k \in 1..Len(programs) :
                        programs[k].program_code =
                            lastLoad.batch[1][1].program_code}) = 1

\* The document of the state, line by line, and what the claims C21 and C22
\* say about it: its heading lines, their titles and their bodies.
DocumentOf == raw.raw_program_descriptions_json[1].page_content

LinesOf(d) == split(d, "\n")

HeadingLines(d) == {i \in 1..Len(LinesOf(d)) : startswith(LinesOf(d)[i], "#")}

TitleOf(d, i) == strip(lstrip(LinesOf(d)[i], "#"))

\* The lines after heading line i up to the next heading line or the end.
BodyOf(d, i) ==
    LET later == {j \in HeadingLines(d) : j > i}
        last == IF later = {} THEN Len(LinesOf(d)) ELSE Min(later) - 1
    IN  join(SubSeq(LinesOf(d), i + 1, last), "\n")

\* The heading lines that have a title and are the last with that title.
LastTitled(d) ==
    {i \in HeadingLines(d) :
        /\ TitleOf(d, i) # << >>
        /\ \A j \in HeadingLines(d) : TitleOf(d, j) = TitleOf(d, i) => j <= i}

Parsed == staged.staging_program_descriptions # << >>

KeysOf(dict) == {dict[k].key : k \in 1..Len(dict)}

\* C21 as stated: every titled heading is mapped to the text between it and
\* the next heading or the end of the input, a repeated title to the text of
\* its last occurrence.
C21_SectionsHoldTextBetween ==
    Parsed =>
        \A i \in LastTitled(DocumentOf) :
            /\ TitleOf(DocumentOf, i) \in KeysOf(sections)
            /\ DictGet(sections, TitleOf(DocumentOf, i), NULL)
                   = BodyOf(DocumentOf, i)

\* The first heading line carrying the title of the k-th section.
FirstWithTitle(d, title) ==
    Min({i \in HeadingLines(d) : TitleOf(d, i) = title})

\* C21, amended: the sections are exactly the titles of the titled heading
\* lines, each once, in the order of their first occurrence; every title is
\* mapped to the text between the last heading line carrying it and the next
\* heading line or the end of the input, with leading and trailing whitespace
\* removed; the document '# Eligibility\nMust hold an MD\n# Prerequisites\nNone'
\* yields exactly {Eligibility: 'Must hold an MD', Prerequisites: 'None'}.
C21_SectionsHoldStrippedText ==
    Parsed =>
        /\ KeysOf(sections) =
               {TitleOf(DocumentOf, i) : i \in LastTitled(DocumentOf)}
        /\ \A j, k \in 1..Len(sections) :
               /\ j # k => sections[j].key # sections[k].key
               /\ j < k => FirstWithTitle(DocumentOf, sections[j].key)
                               < FirstWithTitle(DocumentOf, sections[k].key)
        /\ \A i \in LastTitled(DocumentOf) :
               DictGet(sections, TitleOf(DocumentOf, i), NULL)
                   = strip(BodyOf(DocumentOf, i))
        /\ DocumentOf = EligibilityDocument =>
               sections = << [key |-> << "E", "l", "i", "g", "i", "b", "i",
                                         "l", "i", "t", "y" >>,
                              value |-> << "M", "u", "s", "t", " ", "h", "o",
                                           "l", "d", " ", "a", "n", " ", "M",
                                           "D" >>],
                             [key |-> << "P", "r", "e", "r", "e", "q", "u",
                                         "i", "s", "i", "t", "e", "s" >>,
                                         value |-> << "N", "o", "n",
                                         "e" >>] >>

\* A parsed document in which one title heads two sections with different
\* bodies: the section holds the body of the second.
C21_Witness ==
    /\ Parsed
    /\ \E i \in LastTitled(DocumentOf), j \in HeadingLines(DocumentOf) :
           /\ j < i
           /\ TitleOf(DocumentOf, j) = TitleOf(DocumentOf, i)
           /\ strip(BodyOf(DocumentOf, j)) # strip(BodyOf(DocumentOf, i))
           /\ DictGet(sections, TitleOf(DocumentOf, i), NULL)
                  = strip(BodyOf(DocumentOf, i))

\* C22: a parsed document without a heading line has exactly one section,
\* and that section holds the text of the document.
C22_NoHeadingOneSection ==
    (Parsed /\ HeadingLines(DocumentOf) = {}) =>
        /\ Len(sections) = 1
        /\ strip(sections[1].value) = strip(DocumentOf)

\* The word occurs in the text when letter case is ignored.
OccursIgnoringCase(word, text) ==
    \E k \in 0..(Len(text) - Len(word)) :
        \A i \in 1..Len(word) : lower(<< text[k + i] >>) = << word[i] >>

\* C23: every staged requirement has a text of 1 to 500 characters, and it
\* is flagged mandatory exactly when that text contains "required" or "must",
\* letter case ignored.
C23_RequirementTextAndFlag ==
    \A k \in 1..Len(staged.staging_requirements) :
        LET r == staged.staging_requirements[k]
        IN  /\ Len(r.requirement_text) >= 1
            /\ Len(r.requirement_text) <= 500
            /\ r.is_mandatory <=>
                   \/ OccursIgnoringCase(<< "r", "e", "q", "u", "i", "r", "e",
                                            "d" >>, r.requirement_text)
                   \/ OccursIgnoringCase(<< "m", "u", "s", "t" >>,
                                            r.requirement_text)

\* The requirement of a document whose match is longer than the limit and
\* has "must" beyond it: the staged text has 500 characters and the
\* requirement is not flagged.
C23_Witness ==
    /\ OccursIgnoringCase(<< "m", "u", "s", "t" >>, DocumentOf)
    /\ \E k \in 1..Len(staged.staging_requirements) :
           /\ Len(staged.staging_requirements[k].requirement_text) = 500
           /\ ~staged.staging_requirements[k].is_mandatory

\* The matches of a category in the parsed document: the regex matches of a
\* requirement type that extract some text, the keywords of a criterion type
\* that the document contains, the sentences that name a site.
RequirementMatches(d, n) ==
    LET matches == findall(requirement_patterns[n], d, 1)
    IN  Cardinality({k \in 1..Len(matches) : strip(matches[k]) # << >>})

CriterionMatches(d, n) ==
    Cardinality({k \in 1..Len(criteria_keywords[n].keywords) :
                    Contains(criteria_keywords[n].keywords[k], lower(d))})

SiteMatches(d) ==
    IF \/ Contains(<< "t", "r", "a", "i", "n", "i", "n", "g" >>, lower(d))
       \/ Contains(<< "r", "o", "t", "a", "t", "i", "o", "n" >>, lower(d))
       \/ Contains(<< "s", "i", "t", "e" >>, lower(d))
    THEN Cardinality({k \in 1..Len(split(d, ".")) :
                         \E n \in 1..Len(site_keywords) :
                             Contains(site_keywords[n],
                                      lower(split(d, ".")[k]))})
    ELSE 0

RowsOfType(rows, field, type) ==
    Cardinality({k \in 1..Len(rows) : rows[k][field] = type})

Extracted ==
    /\ Parsed
    /\ staged.staging_requirements
           = RequirementsOf(staged.staging_program_descriptions[1])
    /\ staged.staging_selection_criteria
           = CriteriaOf(staged.staging_program_descriptions[1])
    /\ staged.staging_training_sites
           = DropDuplicateSites(
                 SitesOf(staged.staging_program_descriptions[1]), 1)

\* C24: once the three extractors have run on a document, each category has
\* as many staged records as it has matches in the document: requirements
\* per type, selection criteria per type, training sites.
C24_OneRecordPerMatch ==
    Extracted =>
        /\ \A n \in 1..Len(requirement_patterns) :
               RowsOfType(staged.staging_requirements, "requirement_type",
                          requirement_patterns[n].req_type)
                   = RequirementMatches(DocumentOf, n)
        /\ \A n \in 1..Len(criteria_keywords) :
               RowsOfType(staged.staging_selection_criteria, "criterion_type",
                          criteria_keywords[n].criterion_type)
                   = CriterionMatches(DocumentOf, n)
        /\ Len(staged.staging_training_sites) = SiteMatches(DocumentOf)

\* The text of a name before its first ' - ', surrounding whitespace aside.
TextBeforeSeparator(name) ==
    strip(SubSeq(name, 1, find(name, << " ", "-", " " >>) - 1))

\* C25: a staged specialty is a subspecialty exactly when its name contains
\* ' - '; its parent name is then the text of the name before that ' - ',
\* surrounding whitespace aside, and a specialty whose name has no ' - ' has
\* no parent name.
C25_ParentIsTextBeforeSeparator ==
    \A k \in 1..Len(staged.staging_specialties) :
        LET r == staged.staging_specialties[k]
        IN  /\ r.is_subspecialty <=> Contains(<< " ", "-", " " >>,
                                                 r.specialty_name)
            /\ IF Contains(<< " ", "-", " " >>, r.specialty_name)
               THEN /\ r.parent_specialty_name # << >>
                    /\ strip(r.parent_specialty_name[1])
                           = TextBeforeSeparator(r.specialty_name)
               ELSE r.parent_specialty_name = << >>

\* The categories in the order they are tried, each with its keywords.
CategoryOrder ==
    << [category |-> "Primary Care",
        keywords |-> {<< "f", "a", "m", "i", "l", "y", " ", "m", "e", "d", "i",
                         "c", "i", "n", "e" >>, << "f", "a", "m", "i", "l",
                         "y" >>, << "g", "e", "n", "e", "r", "a", "l", " ",
                         "p", "r", "a", "c", "t", "i", "c", "e" >>}],
       [category |-> "Surgical", keywords |-> {<< "s", "u", "r", "g", "e", "r",
                                                  "y" >>, << "s", "u", "r",
                                                  "g", "i", "c", "a",
                                                  "l" >>}],
       [category |-> "Medical", keywords |-> {<< "m", "e", "d", "i", "c", "i",
                                                 "n", "e" >>, << "m", "e", "d",
                                                 "i", "c", "a", "l" >>}],
       [category |-> "Psychiatry", keywords |-> {<< "p", "s", "y", "c", "h",
                                                    "i", "a", "t", "r",
                                                    "y" >>}],
       [category |-> "Pediatrics", keywords |-> {<< "p", "e", "d", "i", "a",
                                                    "t", "r", "i", "c" >>,
                                                    << "p", "a", "e", "d", "i",
                                                    "a", "t", "r", "i",
                                                    "c" >>}],
       [category |-> "Obstetrics & Gynecology",
        keywords |-> {<< "o", "b", "s", "t", "e", "t", "r", "i", "c" >>,
                         << "g", "y", "n", "e", "c", "o", "l" >>}],
       [category |-> "Diagnostic", keywords |-> {<< "d", "i", "a", "g", "n",
                                                    "o", "s", "t", "i", "c" >>,
                                                    << "r", "a", "d", "i", "o",
                                                    "l", "o", "g", "y" >>}],
       [category |-> "Laboratory", keywords |-> {<< "p", "a", "t", "h", "o",
                                                    "l", "o", "g", "y" >>}] >>

\* The positions of CategoryOrder that have a keyword in the name.
MatchingCategories(name) ==
    {k \in 1..Len(CategoryOrder) :
        \E word \in CategoryOrder[k].keywords : OccursIgnoringCase(word, name)}

FirstCategory(name) ==
    IF MatchingCategories(name) = {} THEN "Other"
    ELSE CategoryOrder[CHOOSE k \in MatchingCategories(name) :
             \A other \in MatchingCategories(name) : k <= other].category

\* C26: a staged specialty has the first category of the fixed order whose
\* keywords occur in its name, letter case ignored, and Other when none does;
\* is_primary_care is true exactly for Primary Care; 'Family Medicine' is
\* Primary Care and 'General Surgery' is Surgical.
C26_FirstCategoryInOrder ==
    \A k \in 1..Len(staged.staging_specialties) :
        LET r == staged.staging_specialties[k]
        IN  /\ r.category = FirstCategory(r.specialty_name)
            /\ r.is_primary_care <=> (r.category = "Primary Care")
            /\ r.specialty_name = << "F", "a", "m", "i", "l", "y", " ", "M",
                                     "e", "d", "i", "c", "i", "n", "e" >>
                   => r.category = "Primary Care" /\ r.is_primary_care
            /\ r.specialty_name = << "G", "e", "n", "e", "r", "a", "l", " ",
                                     "S", "u", "r", "g", "e", "r", "y" >>
                   => r.category = "Surgical" /\ ~r.is_primary_care

\* 'Family Medicine', which has a primary care and a medical keyword, has been
\* staged as Primary Care.
C26_Witness ==
    \E k \in 1..Len(staged.staging_specialties) :
        LET r == staged.staging_specialties[k]
        IN  /\ r.specialty_name = << "F", "a", "m", "i", "l", "y", " ", "M",
                                     "e", "d", "i", "c", "i", "n", "e" >>
            /\ Cardinality(MatchingCategories(r.specialty_name)) > 1
            /\ r.category = "Primary Care"
            /\ r.is_primary_care

\* The university names of the staged program rows.
StagedUniversityNames ==
    {staged.staging_programs[k].university_name :
        k \in 1..Len(staged.staging_programs)}

\* C27: once staging_universities has run, its output has exactly one row for
\* each distinct university name of the staged program rows and no other row,
\* however many program rows or raw school ids carry the name.
C27_OneRowPerUniversityName ==
    staged.staging_universities # << >> =>
        /\ \A name \in StagedUniversityNames :
               Cardinality({k \in 1..Len(staged.staging_universities) :
                   staged.staging_universities[k].university_name = name}) = 1
        /\ \A k \in 1..Len(staged.staging_universities) :
               staged.staging_universities[k].university_name
                   \in StagedUniversityNames

\* C28: staging_programs emits one row per input row; a row is flagged
\* invalid exactly when its stripped program code has fewer than 3 characters
\* or its university name is empty; and every row flagged valid has a
\* non-empty program_code, program_name, university_name and specialty_name.
C28_ValidRowsAreComplete ==
    staged.staging_programs # << >> =>
        /\ Len(staged.staging_programs) = Len(raw.raw_program_master)
        /\ \A k \in 1..Len(staged.staging_programs) :
               LET r == staged.staging_programs[k]
               IN  /\ ~r.is_valid <=>
                          \/ Len(strip(r.program_code)) < 3
                          \/ r.university_name = << >>
                   /\ r.is_valid =>
                          /\ r.program_code # << >>
                          /\ r.program_name # << >>
                          /\ r.university_name # << >>
                          /\ r.specialty_name # << >>

\* The stored specialty with the given id, as a set of positions.
SpecialtyWithId(table, id) == {k \in 1..Len(table) : table[k].id = id}

\* The ids reached from a specialty by following at most n parent links.
RECURSIVE Ancestry(_, _, _)
Ancestry(table, k, n) ==
    IF n = 0 \/ table[k].parent_specialty_id = 0 THEN {table[k].id}
    ELSE {table[k].id} \cup
         UNION {Ancestry(table, p, n - 1) :
                   p \in SpecialtyWithId(table, table[k].parent_specialty_id)}

\* Following parent links from position k ends at a row without parent
\* before any row is met twice.
ReachesRoot(table, k) ==
    \E n \in 0..Len(table) :
        \E root \in 1..Len(table) :
            /\ table[root].parent_specialty_id = 0
            /\ table[root].id \in Ancestry(table, k, n)
            /\ Cardinality(Ancestry(table, k, n)) = n + 1

\* Every parent link leads to another stored row named by the child's text
\* before its ' - ' separator, and the links form no cycle.
HierarchyWellFormed(table) ==
    \A k \in 1..Len(table) :
        /\ table[k].parent_specialty_id # 0 =>
               \E p \in SpecialtyWithId(table, table[k].parent_specialty_id) :
                   /\ p # k
                   /\ table[p].id # table[k].id
                   /\ Contains(<< " ", "-", " " >>,
                                  DisciplineText(table[k].name))
                   /\ strip(DisciplineText(table[p].name))
                          = TextBeforeSeparator(DisciplineText(table[k].name))
        /\ ReachesRoot(table, k)

\* The stored subspecialties whose parent, the specialty named by the text
\* before the separator, has no row in the batch.
ParentNotInBatch(table, batch) ==
    {k \in 1..Len(table) :
        /\ Contains(<< " ", "-", " " >>, DisciplineText(table[k].name))
        /\ \A i \in 1..Len(batch) :
               strip(DisciplineText(batch[i].specialty_name))
                   # TextBeforeSeparator(DisciplineText(table[k].name))}

\* C29: after every dim_specialties load each parent link references another
\* stored specialty whose name is the child's name before its separator, the
\* links lead to a specialty without parent and form no cycle, and a stored
\* subspecialty whose parent is not in the loaded batch keeps its link.
C29_HierarchyWellFormed ==
    [][/\ HierarchyWellFormed(specialties')
       /\ \A k \in ParentNotInBatch(specialties, lastLoad'.batch) :
              specialties'[k].parent_specialty_id
                  = specialties[k].parent_specialty_id]_vars

\* The fields the update path of a loader assigns.
MutableUniversityFields == {"code", "province", "is_francophone"}

MutableProgramFields ==
    {"program_name", "university_id", "specialty_id", "carms_year"}

DescriptionFields == {"description", "program_overview", "curriculum_highlights"}

\* The rows of `old` are in place in `new`, each with the same value in every
\* field but the ones named.
SameBut(old, new, fields) ==
    /\ Len(new) >= Len(old)
    /\ \A k \in 1..Len(old) :
           /\ DOMAIN new[k] = DOMAIN old[k]
           /\ \A f \in DOMAIN old[k] \ fields : new[k][f] = old[k][f]

\* The candidates of a program batch that fact_programs resolves and that
\* carry the program code.
UpdatesOf(batch, code) ==
    {i \in Candidates(batch) \ Unresolved(batch) : batch[i].program_code = code}

====
